----------------------------- MODULE MCLifecycle -----------------------------
(* A small MA for Lifecycle: two policies, of which one lets a token read    *)
(* events, and other plugins that take the first or a later route of a group. *)
EXTENDS Lifecycle

CONSTANTS r1, r2, t1

MCWatched == {<<"guarded", t1>>, <<"open", Default>>}

(* The endpoint, and the document every MCP server publishes at one place. *)
MCSharedRoutes == {<<"mcp", "a">>, <<"resource", "root">>}

MCEndpoint == {<<"mcp", "a">>}
===============================================================================
