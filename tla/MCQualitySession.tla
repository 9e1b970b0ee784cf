-------------------------- MODULE MCQualitySession --------------------------
\* Instances of QualitySession for TLC.
EXTENDS QualitySession, TLC

CONSTANTS main, other

\* Two sessions that meet and one trouble, or one session with several.
MCBudgets == {[sessions |-> 2, faults |-> 1, interrupts |-> 0],
              [sessions |-> 2, faults |-> 0, interrupts |-> 1],
              [sessions |-> 1, faults |-> 1, interrupts |-> 2]}
=============================================================================
