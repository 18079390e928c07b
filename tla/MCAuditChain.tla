---- MODULE MCAuditChain ----
EXTENDS AuditChain
CONSTANTS w1, w2, c1
====
