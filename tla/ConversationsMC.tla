-------------------------- MODULE ConversationsMC --------------------------
(* Constant values for model checking Conversations. *)
EXTENDS Conversations

\* Two openings that differ only in a system message without text.
MCOpenings == {[system |-> Absent, user |-> "hi"], [system |-> "", user |-> "hi"]}

\* A text, with fields no client sends back; calls; a text with streamed calls.
MCAnswers ==
    {Message("assistant", "yes", Absent, TRUE), Message("assistant", Null, "calls", FALSE),
     Message("assistant", "wait", "indexed calls", FALSE)}

MCSymmetry == Permutations(Chats)
=============================================================================
