---------------------------- MODULE MCOutbound -----------------------------
(***************************************************************************)
(* Outbound for TLC.                                                       *)
(***************************************************************************)
EXTENDS Outbound, TLC

CONSTANTS me, ana, bob, lme, lana, lbob, chat, yes, YES, no, one, other, none

-----------------------------------------------------------------------------
Lids  == me :> lme @@ ana :> lana @@ bob :> lbob
Peers == chat :> NoPeer

\* Rows with nothing wrong, and with each thing that may be wrong.
Row(type, to, content, keys, trouble) ==
  [type |-> type, chat |-> to, content |-> content, keys |-> keys, trouble |-> trouble]
Rows ==
  {Row("message", "number", "text", {}, t) :
     t \in {"none", "no address", "not a number", "nobody", "empty", "no option", "refused",
            Unlisted}}
  \union {Row("message", "group", "file", {}, t) :
     t \in {"none", "media_url", "no payload", "too large", "gone"}}
  \union {Row("message", "group", "data", {}, t) : t \in {"bad id", "unsupported"}}
  \union {Row("status", "number", "", {"typing", "read"}, t) : t \in {"none", "bad id", Unlisted}}
  \union {Row("contact", "number", "", {}, t) : t \in {"none", "no contact", "not a person", Unlisted}}
  \union {Row("presence", "number", "", {}, "unknown type")}

\* One mentioned by number and one by LID.
Called == {ana, [user |-> lbob, server |-> "lid"]}

\* Each form, with links among the buttons, a row without an id, and titles that meet.
Spoken == {yes, YES, no, one, other, none}
Fold   == [t \in Spoken |-> IF t = YES THEN yes ELSE t]
Button(kind, id, title, index) == [kind |-> kind, id |-> id, title |-> title, index |-> index]
Sent(form, buttons) == [form |-> form, buttons |-> buttons]
Wires ==
  {Sent("buttons", <<Button("plain", one, yes, 0), Button("quick_reply", none, no, 0),
                     Button("other", one, other, 0)>>),
   Sent("list", <<Button("plain", no, yes, 0), Button("plain", one, no, 0)>>),
   Sent("template", <<Button("cta_url", none, yes, 0), Button("plain", one, yes, 1),
                      Button("plain", yes, no, 2)>>),
   Sent("native_flow", <<Button("cta_call", none, one, 0), Button("single_select", one, yes, 0),
                         Button("single_select", one, no, 0)>>),
   Sent("native_flow", <<Button("cta_url", none, yes, 0)>>)}
=============================================================================
