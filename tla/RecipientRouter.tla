--------------------------- MODULE RecipientRouter ---------------------------
(***************************************************************************)
(* The group-chat recipient router (b/recipient_router.py) as the chat      *)
(* endpoint uses it: which agent of a room answers a message.               *)
(*                                                                          *)
(* A conversation is a record: to and before are the agents that the latest *)
(* user message and the one before it address by name (None when they       *)
(* address nobody), answered says whether an assistant turn stands between  *)
(* them, lobe whether the latest message addresses or consults lobe A or B, *)
(* blank whether it is only white space.  Names are equal when they are     *)
(* equal after canonical: in lower case and without "lobe".                 *)
(*                                                                          *)
(* Behavioural rules (b/rules.py) are text in the router's prompt; they     *)
(* leave no trace in what the router may answer, and are left out.          *)
(***************************************************************************)
CONSTANTS None, Agent

Modes == {"off", "flat", "hierarchy", "semantic"}   \* the last: any other string

Conversation == [to : Agent \cup {None}, before : Agent \cup {None},
                 answered : BOOLEAN, lobe : BOOLEAN, blank : BOOLEAN]

explicit_addressee(c) == c.to

\* Mutant: a follow-up to an addressed message is taken for a broadcast.
NamedOnly(c) == explicit_addressee(c) # None

\* A message that addresses somebody, or follows up on one that did.
flat_route_required(c) ==
    explicit_addressee(c) # None \/ (c.answered /\ c.before # None)

\* The turn asks for a lobe by letter: lobe_address or unaddressed_consultee.
routing_requested(c) == c.lobe

\* Whether a request goes through the router at all.
RouteRequired(mode, c, bypass) ==
    /\ mode # "off"
    /\ ~bypass
    /\ ~routing_requested(c)
    /\ mode = "flat" => flat_route_required(c)

Target(c) == IF c.to = None /\ c.answered THEN c.before ELSE c.to

(***************************************************************************)
(* What the model may make of a message: a verdict, text that is not a      *)
(* valid analysis, or nothing (empty content, an error, a timeout).         *)
(***************************************************************************)
_analyze_recipient == {"respond", "silent", "invalid", "error"}

_validate_recipient_analysis(raw) == raw \in {"respond", "silent"}

\* An invalid analysis counts as "respond".
_parse_recipient_analysis(raw) == _validate_recipient_analysis(raw) => raw = "respond"

(***************************************************************************)
(* The decisions route_message may return to agent a.  Flat routing is      *)
(* deterministic.  The hierarchy mode imports a package that does not       *)
(* exist: it ends in the safe default, as any error does.                   *)
(***************************************************************************)
route_message(mode, a, c) ==
    CASE c.blank -> {FALSE}
      [] ~c.blank /\ mode = "flat" -> {Target(c) \in {None, a}}
      [] ~c.blank /\ mode = "hierarchy" -> {TRUE}
      [] OTHER -> {raw = "error" \/ _parse_recipient_analysis(raw) : raw \in _analyze_recipient}
=============================================================================
