---------------------------- MODULE MCBlockSync ----------------------------
\* A session's peer and one or two helpers, and a chain a few chunks long.
EXTENDS BlockSync, TLC
=============================================================================
