---------------------------- MODULE MCToolRunner ----------------------------
EXTENDS ToolRunner
=============================================================================
