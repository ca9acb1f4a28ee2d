------------------------------ MODULE MCBackends ------------------------------
EXTENDS Backends
CONSTANTS u1, u2
One == {u1}
Two == {u1, u2}
===============================================================================
