---------------------------- MODULE MCToolInstall ----------------------------
EXTENDS ToolInstall
CONSTANTS p1, p2, compiler, library

TwoProcesses == {p1, p2}
TwoEntries == {compiler, library}
==============================================================================
