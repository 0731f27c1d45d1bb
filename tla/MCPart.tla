------------------------------- MODULE MCPart -------------------------------
\* Several components checked in one run.  They share no state: a behaviour
\* works on one of them, its part, and leaves the others as they start.
EXTENDS Integers, FiniteSets, Sequences, TLC

CONSTANTS Checked, None

VARIABLE part

Pick(p) == part = p /\ UNCHANGED part
=============================================================================
