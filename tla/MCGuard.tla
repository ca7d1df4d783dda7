------------------------------ MODULE MCGuard ------------------------------
(* Guard with every restore mode, and where children stop also failing forks: a pid that *)
(* is leaked to a zombie is one that fork does not have.                                 *)
EXTENDS Guard

MCSetup ==
  {s \in [restore_mode : [Item -> RestoreMode],
          forks_fail : BOOLEAN, children_stop : BOOLEAN] :
     s.children_stop => s.forks_fail}
=============================================================================
