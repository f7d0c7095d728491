------------------------- MODULE MCTopicSuggestions -------------------------
(* Instances of TopicSuggestions for TLC. *)
EXTENDS TopicSuggestions

CONSTANTS s1, s2, ann, bob, home, moved, public

\* DNS fails, or finds one private address, another one, or a public one.
Answers == {<<>>, <<home>>, <<moved>>, <<public>>}
=============================================================================
