----------------------------- MODULE MCPppLink -----------------------------
EXTENDS PppLink
MCAddr == {"10.0.0.2", "10.0.0.3"}
MCOptions == <<[ty |-> "Mru", val |-> "other"], Magic>>
=============================================================================
