----------------------------- MODULE MCChatRooms -----------------------------
(***************************************************************************)
(* A small instance of ChatRooms: a user and an administrator, a room for  *)
(* everybody and the room of a team.                                       *)
(***************************************************************************)
EXTENDS ChatRooms, TLC

CONSTANTS ann, bob, lobby, crew, h1, h2, a, b

Symmetry == {p @@ q : p \in Permutations({h1, h2}), q \in Permutations({a, b})}
=============================================================================
