-------------------------- MODULE MCServiceLifecycle --------------------------
\* Three connections over two clients.
EXTENDS ServiceLifecycle

CONSTANTS c1, c2, c3
==============================================================================
