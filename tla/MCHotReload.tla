----------------------------- MODULE MCHotReload -----------------------------
EXTENDS HotReload

FirstBroken == {1}
==============================================================================
