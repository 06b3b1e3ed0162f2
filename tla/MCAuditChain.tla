---------------------------- MODULE MCAuditChain ----------------------------
\* Two transactions at a time, four rows, pages of two, two ranks to a
\* millisecond: rows are committed out of order, pages end inside and at the
\* end of a millisecond, and rows arrive, change and go between two pages.
EXTENDS AuditChain

=============================================================================
