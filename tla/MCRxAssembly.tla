---------------------------- MODULE MCRxAssembly ----------------------------
(* Messages for model checking RxAssembly. *)
EXTENDS RxAssembly

Message(from, to, cmd, text) == [from |-> from, to |-> to, cmd |-> cmd, text |-> text]

\* A station with a compound call sends a checksummed message in two frames of
\* text and an answer without text; others send a text that is not
\* checksummed, a text to nobody, a question, and a heartbeat.
Mixed ==
  {Message("P/A", "ME", "checked", <<"a", "b">>),
   Message("P/B", "ME", "open", << >>),
   Message("C", "ME", "open", <<"c">>),
   Message("", "", "none", <<"e", "f">>),
   Message("D", "ME", "plain", << >>),
   Message("H", "@HB", "heartbeat", << >>)}
MixedCompound == {"P/A", "P/B"}

\* Two stations whose compound calls need frames of their own.
TwoCalls ==
  {Message("P/A", "ME", "open", << >>), Message("P/B", "ME", "open", << >>)}

\* A message long enough to have a frame missing in the middle.
Long == {Message("C", "ME", "open", <<"a", "b", "c">>)}
=============================================================================
