----------------------------- MODULE MCGateway ------------------------------
(***************************************************************************)
(* Small plans: each puts one part of the gateway under stress, with the   *)
(* requests that may disturb it.                                           *)
(***************************************************************************)
EXTENDS Gateway, TLC

CONSTANTS r1, r2, r3, b1, k1

ThreeRequests == {r1, r2, r3}
OneProvider   == {b1}
OneLogin      == {k1}
ThreeHandlers == 1 .. 3
TwoLifetimes  == {0, 3}

On(flags, runtime) == [config |-> [flags |-> flags, runtime |-> runtime], bound |-> TRUE]
Unbound(env)       == [env EXCEPT !.bound = FALSE]

AllOn   == On(Flags \cup {"link"}, "dynamic_worker")
NoFlags == On({"link"}, "dynamic_worker")
NoLoader == On(Flags \cup {"link"}, "native_fallback")
NoCodeMode == On(Flags \cup {"link"}, "unavailable")

Request(kind, env, cookie, bearer) ==
    [kind |-> kind, env |-> env, cookie |-> cookie, bearer |-> bearer,
     login |-> k1, codemode |-> FALSE, items |-> <<>>]
Nothing == Request("none", AllOn, Nobody, Nobody)

Asking(env, cookie, bearer, items) ==
    [Request("mcp", env, cookie, bearer) EXCEPT !.items = items]
Coding(env, cookie, items) ==
    [Asking(env, cookie, Nobody, items) EXCEPT !.codemode = TRUE]

ThreeOf(x, y, z, until) ==
    [request |-> [r \in ThreeRequests |-> IF r = r1 THEN x ELSE IF r = r2 THEN y ELSE z],
     until |-> until]

Link1   == Request("link", AllOn, Nobody, Nobody)
Logout1 == Request("logout", AllOn, r1, Nobody)
Revoke1 == Request("revoke", AllOn, Nobody, r1)

Tool(name, how, capability, confirmed, argument) ==
    [name |-> name, how |-> how, capability |-> capability, confirmed |-> confirmed,
     argument |-> argument, source |-> "codex"]
Native(tool, confirmed) == Tool(tool, "direct", "none", confirmed, "absent")
Capability(c, confirmed, argument) == Tool("execute", "direct", c, confirmed, argument)
Search == Tool("search", "direct", "none", FALSE, "absent")

Call(c)       == [kind |-> "call", call |-> c, code |-> <<>>]
Other(kind)   == [kind |-> kind, call |-> Search, code |-> <<>>]
Code(name, calls) == [kind |-> "call", call |-> Tool(name, "code", "none", FALSE, "absent"),
                      code |-> calls]

(* Every tool, confirmed or not, with publishing on and off. *)
EveryTool ==
    {ThreeOf(Link1, Asking(env, r1, Nobody, <<Call(Native(t, c))>>), Nothing, 1) :
        t \in Tools \cup {"no_tool"}, c \in BOOLEAN, env \in {AllOn, NoFlags}}

(* Every capability by name; a confirmation in either place. *)
Confirmations == {<<FALSE, "absent">>, <<TRUE, "absent">>, <<TRUE, "no">>, <<FALSE, "yes">>}
EveryCapability ==
    {ThreeOf(Link1, Coding(AllOn, r1, <<Call(Capability(c, how[1], how[2]))>>), Nothing, 1) :
        c \in getCapabilityCatalog \cup {"no_capability"}, how \in Confirmations}

(* Search, other names, no code, no loader. *)
Empty(name) == [Code(name, <<>>) EXCEPT !.call.how = "empty"]
EveryRuntime ==
    {ThreeOf(Link1, Coding(env, r1, <<i>>), Nothing, 1) :
        env \in {AllOn, NoLoader, NoCodeMode},
        i \in {Call(Search), Empty("execute"), Code("other", <<>>), Code("search", <<>>),
               [Code("execute", <<>>) EXCEPT !.call.capability = "compile_draft_capsule"]}}

(* Sandboxed code that makes four calls, two more than it may. *)
Update   == Capability("update_live_vibe_metadata", TRUE, "absent")
Sneaked  == Capability("publish_draft_capsule", TRUE, "no")
Compiled == Capability("compile_draft_capsule", FALSE, "absent")
Sandboxes ==
    {ThreeOf(Link1, Coding(AllOn, r1, <<Code(name, calls)>>), Nothing, 1) :
        name \in {"execute", "search"},
        calls \in {<<Compiled, Compiled, Compiled, Compiled>>, <<Search, Update, Compiled>>,
                   <<Sneaked, Search, Compiled>>}}

(* Batches, with a logout and an expiry between the items. *)
CompileItem == Call(Native("compile_draft_capsule", FALSE))
Unconfirmed == Call(Native("publish_draft_capsule", FALSE))
Overview    == Call(Native("get_vibecodr_platform_overview", FALSE))
Batches ==
    {ThreeOf(Link1, Asking(AllOn, r1, Nobody, items), Logout1, 1) :
        items \in {<<CompileItem, CompileItem>>, <<CompileItem, Unconfirmed>>,
                   <<Unconfirmed, Other("note"), CompileItem>>, <<CompileItem, Other("bad")>>,
                   <<Overview, Other("plain")>>, <<Other("note"), Other("note")>>, <<>>}}

(* A session of a link over its whole life, revoked in two ways. *)
Lives ==
    {ThreeOf(Link1, x, y, 6) :
        x \in {Logout1, Revoke1},
        y \in {Request("session", AllOn, r1, Nobody), Request("summary", AllOn, r1, r1),
               Asking(AllOn, Nobody, r1, <<Call(Native("get_live_vibe", FALSE))>>),
               Request("session", AllOn, r1, b1)}}

(* A provider's token, exchanged, cached, expired. *)
Provided ==
    {ThreeOf(Request("session", AllOn, Nobody, b1),
             Asking(AllOn, Nobody, b1, <<Call(Native("get_live_vibe", FALSE))>>), Nothing, 5)}

(* A login with two callbacks, in one handler or in two. *)
LoggingIn ==
    {ThreeOf(Request("start", AllOn, Nobody, Nobody), Request("callback", AllOn, Nobody, Nobody),
             Request("callback", env, Nobody, Nobody), 4) : env \in {AllOn, NoFlags}}

(* A manual token link where there are none. *)
Links == {ThreeOf(Request("link", On(Flags, "dynamic_worker"), Nobody, Nobody), Nothing, Nothing, 1)}

(* The configuration changes, first without its bindings. *)
Publish1(env) == Asking(env, r1, Nobody, <<Call(Native("publish_draft_capsule", TRUE))>>)
Deployments ==
    {ThreeOf(Link1, Publish1(Unbound(NoFlags)), Publish1(env), 1) :
        env \in {NoFlags, Unbound(NoFlags), Unbound(AllOn)}}

AllPlans == EveryTool \cup EveryCapability \cup EveryRuntime \cup Sandboxes \cup Batches
            \cup Lives \cup Provided \cup LoggingIn \cup Links \cup Deployments

=============================================================================
