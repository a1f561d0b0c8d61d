-------------------------- MODULE MCApprovalService --------------------------
EXTENDS ApprovalService

CONSTANTS r1, r2, r3, s1, s2, c1

\* r1 and r2 are two attempts at one tool call of a conversation; r3 comes from
\* a child session of it and has no tool call id.
SessionOfRequest == [r \in Requests |-> IF r = r3 THEN s2 ELSE s1]
RootOfRequest == [r \in Requests |-> s1]
CallOfRequest == [r \in Requests |-> IF r = r3 THEN NoCall ELSE c1]
=============================================================================
