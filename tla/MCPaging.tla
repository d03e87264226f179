------------------------------ MODULE MCPaging ------------------------------
EXTENDS Paging
=============================================================================
