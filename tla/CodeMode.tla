------------------------------ MODULE CodeMode ------------------------------
(***************************************************************************)
(* The second way to the tools: a catalog of capabilities, most of them    *)
(* native tools, and two tools of its own, search and execute.  Execute    *)
(* runs one capability, or code in a sandbox that may call search and      *)
(* execute in turn.  Here: what the catalog promises, and what a call of a *)
(* capability becomes; the sandbox itself is in Gateway.                   *)
(***************************************************************************)
EXTENDS ToolTable, Integers

(* Entries of the catalog that are no native tools; all but one can only   *)
(* be looked at.                                                           *)
manualEntries ==
    {"publish.import_package", "publish.compile_draft", "publish.publish_capsule",
     "publish.get_capsule_state", "runtime.readiness", "pulses.lifecycle", "social.read",
     "ops.error_triage", "policy.private_backend_projection"}

getCapabilityCatalog == Tools \cup manualEntries

nativeToolName(c) ==
    CASE c \in Tools              -> c
      [] c = "runtime.readiness"  -> "get_runtime_readiness"
      [] OTHER                    -> "none"

confirmationRequired(c) ==
    DestructiveHint(c) \/ c \in {"publish.publish_capsule", "pulses.lifecycle"}

-----------------------------------------------------------------------------
(* A call, by a client or by sandboxed code.  confirmed is an argument of  *)
(* the call itself or one of the tool's own arguments, which win.          *)
Calls == [name: STRING, how: {"direct", "code", "empty"}, capability: STRING,
          confirmed: BOOLEAN, argument: {"absent", "yes", "no"}, source: Sources]

Confirmed(c) == CASE c.argument = "yes" -> TRUE
                  [] c.argument = "no"  -> FALSE
                  [] OTHER              -> c.confirmed

(* A run of callTool, with a session if it is known.  answer is set when   *)
(* it has ended.                                                           *)
Off == [state |-> "off", item |-> 0, tool |-> "none", known |-> FALSE, chain |-> <<>>,
        answer |-> "none"]
Ended(item, answer) == [Off EXCEPT !.state = "ended", !.item = item, !.answer = answer]

callTool(item, tool, known, confirmed, source, flags) ==
    LET gate == Refusal(tool, known, confirmed, source, flags)
    IN  IF gate = "open"
        THEN {[Off EXCEPT !.state = "on", !.item = item, !.tool = tool, !.known = known,
                          !.chain = c] : c \in Chains(tool)}
        ELSE {Ended(item, withValidatedStructuredContent(tool, gate))}

executeCapability(item, c, known, flags) ==
    LET tool == nativeToolName(c.capability)
    IN  IF c.capability \notin getCapabilityCatalog THEN {Ended(item, "error")}
        ELSE IF confirmationRequired(c.capability) /\ ~c.confirmed THEN {Ended(item, "confirm")}
        ELSE IF tool = "none" THEN {Ended(item, "error")}
        ELSE callTool(item, tool, known, Confirmed(c), c.source, flags)

-----------------------------------------------------------------------------
(* One step of a run: the request at the head of its chain is answered,    *)
(* refused, or refused as far as the gateway can tell.                     *)

Stops(x, answer) == [x EXCEPT !.state = "ended", !.answer = answer, !.chain = <<>>]
GoesOn(x)        == [x EXCEPT !.chain = Tail(@)]

StepAnswered(x) ==
    CASE Head(x.chain).then = "ends" -> {[x EXCEPT !.chain = <<>>]}
      [] Head(x.chain).then = "asks" -> {GoesOn(x), Stops(x, "error")}
      [] OTHER                       -> {GoesOn(x)}

StepFailed(x) ==
    CASE Head(x.chain).fails = "skipped"  -> GoesOn(x)
      [] Head(x.chain).fails = "caught"   -> Stops(x, "error")
      [] Head(x.chain).fails = "thrown"   -> Stops(x, "threw")
      [] Head(x.chain).fails = "reported" -> Stops(x, "reported")

(* Then the result is checked against the tool's schema. *)
Results == {"ok", "error"}

=============================================================================
