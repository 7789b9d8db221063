------------------------------- MODULE MCPipe -------------------------------
EXTENDS PipeProps

\* The bridges are alike, so let one of them be the first to connect.
FirstBridge == pid[CHOOSE c \in Conns : TRUE] \in {None, CHOOSE u \in Users : TRUE}
=============================================================================
