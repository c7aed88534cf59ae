---------------------------- MODULE Interactive ----------------------------
(***************************************************************************)
(* A message that offers choices, and the text that answers one            *)
(* (interactive.go, SaveInteractive and GetInteractive in store.go).       *)
(*                                                                         *)
(* What the message offered is read off the wire and kept when the bridge  *)
(* first sees it.  Later the account replies with a text: one that names   *)
(* an option presses it, in the shape that message expects.                *)
(***************************************************************************)
EXTENDS Naturals, Sequences

CONSTANTS
  Offers,     \* the messages: a form, and buttons with a kind, an id and a title
  Texts,      \* what may be said, ids and titles among them
  Folded,     \* each text without its case and the blanks around it
  NoID,       \* a button without an id
  NoOffer, NoAnswer

\* The forms a message takes, and what its buttons are: pressed in a flow or plainly, links, or
\* not known here.
Forms == {"buttons", "list", "template", "native_flow"}
Links == {"cta_url", "cta_call"}
Flows == {"quick_reply", "single_select"}
Kinds == Flows \union Links \union {"plain", "other"}

\* A native flow's button always has a name.
ASSUME InteractiveAssumption ==
  /\ NoID \in Texts /\ Folded \in [Texts -> Texts]
  /\ \A o \in Offers :
       /\ o.form \in Forms
       /\ o.buttons \in Seq([kind : Kinds, id : Texts, title : Texts, index : Nat])
       /\ o.form = "native_flow" => \A i \in DOMAIN o.buttons : o.buttons[i].kind # "plain"

VARIABLES
  offer,      \* the message, as it was sent; it never changes
  kept,       \* bridge_interactive: what was read of it, or NoOffer
  answer      \* what the last reply to it became

interactiveVars == <<offer, kept, answer>>

\* Mutant of Offered: a link can be pressed too.
Offered_Links(button) == button.kind \in Flows \union Links \union {"plain"}

\* Buttons, rows and quick replies are options.  Links are not, nor is a name not known here.
Offered(button) == button.kind \in Flows \union {"plain"}

\* The options keep the places of their buttons, which is their order.
interactiveOf(wire) ==
  [form    |-> wire.form,
   options |-> [i \in {j \in DOMAIN wire.buttons : Offered(wire.buttons[j])} |-> wire.buttons[i]]]

InteractiveInit ==
  /\ offer \in Offers
  /\ kept = NoOffer
  /\ answer = NoAnswer

\* Seen live or as an echo; a second sighting keeps the first, a failed save is only logged.
rememberInteractive ==
  /\ kept' \in {kept, IF kept = NoOffer THEN interactiveOf(offer) ELSE kept}
  /\ UNCHANGED <<offer, answer>>

\* The first option that the text names, by title or by id.
Names(said, option) ==
  Folded[said] = Folded[option.title] \/ (option.id # NoID /\ said = option.id)

Picked(said)  == {i \in DOMAIN kept.options : Names(said, kept.options[i])}
First(places) == CHOOSE i \in places : \A j \in places : i <= j

\* The answer in the shape of the form: only a template's says the place, only a native flow's
\* the flow.
Press(option) ==
  [as    |-> kept.form,
   id    |-> option.id,
   title |-> option.title,
   index |-> IF kept.form = "template" THEN option.index ELSE 0,
   flow  |-> IF kept.form # "native_flow" THEN ""
             ELSE IF option.kind \in Flows THEN option.kind ELSE "quick_reply"]

pressFor(said) ==
  IF kept = NoOffer THEN [as |-> "text"]
  ELSE IF DOMAIN kept.options = {} THEN [as |-> "text"]
  ELSE IF Picked(said) = {} THEN [as |-> "refusal"]
  ELSE Press(kept.options[First(Picked(said))])

\* The consumer replies to the message; the store may fail, and the dispatcher tries again.
ReplyWith(said) ==
  /\ answer' \in {[to |-> pressFor(said), said |-> said, seen |-> kept # NoOffer], NoAnswer}
  /\ UNCHANGED <<offer, kept>>

InteractiveNext == rememberInteractive \/ \E said \in Texts : ReplyWith(said)

InteractiveSpec == InteractiveInit /\ [][InteractiveNext]_interactiveVars

-----------------------------------------------------------------------------
\* Type invariant.
InteractiveTypeOK ==
  /\ offer \in Offers
  /\ kept \in {NoOffer, interactiveOf(offer)}
  /\ answer = NoAnswer \/ (answer.said \in Texts /\ answer.to.as \in Forms \union {"text", "refusal"})

\* The wire buttons a text names, and of those the ones that can be pressed.
Named(said) ==
  {i \in DOMAIN offer.buttons :
     /\ offer.buttons[i].kind \notin {"cta_url", "cta_call", "other"}
     /\ \/ Folded[offer.buttons[i].title] = Folded[said]
        \/ offer.buttons[i].id = said /\ said # NoID}

\* A press is of a button of that very message which the text names, the first of them when
\* several are, in the message's own form, under the button's id, place and flow.  A refusal
\* means that the text names none, and a plain text that nothing was there to press, or that
\* the message was not on file yet (rememberInteractive may fail or come late).
PressesWhatItNames ==
  answer # NoAnswer =>
    CASE answer.to.as = "refusal" -> Named(answer.said) = {} /\ answer.seen
      [] answer.to.as = "text"    -> ~answer.seen \/ \A said \in Texts : Named(said) = {}
      [] OTHER -> \E i \in Named(answer.said) :
           LET button == offer.buttons[i]
           IN /\ \A j \in Named(answer.said) : i <= j
              /\ answer.to.as = offer.form /\ answer.to.id = button.id
              /\ offer.form = "template" => answer.to.index = button.index
              /\ offer.form = "native_flow" => answer.to.flow = button.kind
=============================================================================
