---------------------------- MODULE MCDeployment ----------------------------
EXTENDS Deployment, TLC

CONSTANTS c1, c2

MCCommit == {c1, c2}
MCLater == c1 :> {c2} @@ c2 :> {}
=============================================================================
