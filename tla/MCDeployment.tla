---------------------------- MODULE MCDeployment ----------------------------
\* Deployment with one process of each kind.
EXTENDS Deployment

MCKinds == {"api", "worker", "recovery"}
=============================================================================
