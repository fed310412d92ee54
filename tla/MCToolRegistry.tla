---------------------------- MODULE MCToolRegistry ----------------------------
EXTENDS ToolRegistry

CONSTANTS get, cancel, getChanged

\* Two contracts of one name, a tool that comes and goes, and a page that asks for
\* none (the Studio once its package is frozen).
MCNameOf == [t \in {get, cancel, getChanged} |-> IF t = cancel THEN "cancel" ELSE "get"]
MCCatalogs == {{}, {get}, {get, cancel}, {getChanged}}

\* A page that never changes the tools it asks for.
MCStableCatalogs == {{get, cancel}}
=============================================================================
