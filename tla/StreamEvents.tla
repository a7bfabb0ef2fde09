---------------------------- MODULE StreamEvents ----------------------------
(***************************************************************************)
(* The frames and events of the streaming protocols, abstracted to what    *)
(* their order depends on.  An event has a name, the index of the content  *)
(* block, output item or tool call it is about (NoIndex when none), what   *)
(* it carries (a kind, a reason), a token count and, for the final         *)
(* response, the list of output indexes.  Texts, identifiers and models    *)
(* are left out.  A Chat chunk that carries several deltas acts on every   *)
(* translator as the chunks that carry them one by one, in the order       *)
(* thinking, text, tool calls, finish reason, so a frame carries one.      *)
(***************************************************************************)
EXTENDS Integers, Sequences, FiniteSets, SequencesExt

NoIndex == -1

\* An event about the block, item or call idx.
Ev(name, idx, what) == [ev |-> name, idx |-> idx, what |-> what, n |-> 0, list |-> <<>>]

\* An event about the whole message.
Whole(name, what) == Ev(name, NoIndex, what)

\* A frame with a token count.
Counted(name, what, n) == [Whole(name, what) EXCEPT !.n = n]

\* A translator collects what one call emits in its field out.
Emit(s, events) == [s EXCEPT !.out = @ \o events]
=============================================================================
