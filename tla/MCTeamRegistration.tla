------------------------- MODULE MCTeamRegistration -------------------------
(***************************************************************************)
(* Small instances of TeamRegistration: two users who may both register a  *)
(* team, one address each, and a guest without one.                        *)
(***************************************************************************)
EXTENDS TeamRegistration

CONSTANTS ann, bob   \* users

MCUsers == {ann, bob}

Invited == [email |-> "b", user |-> bob]
Guest == [email |-> "g", user |-> NoUser]
Nameless == [email |-> NoEmail, user |-> NoUser]
MCRosters == {{Invited}, {Guest, Nameless}}
\* For racing registrations: both captains may want either of two people.
Shared == {{Invited}, {Guest}, {Guest, Nameless}}
MCLinked == {bob}

AllKinds ==
  {"createTeam", "updateTeam", "deleteTeam", "adminDeleteTeam", "acceptInvite", "rejectInvite",
   "addMember", "linkMemberToUser", "addChatMember", "removeChatMember", "findMyTeams"}
CreateKinds == {"createTeam"}
EditKinds == {"createTeam", "updateTeam"}
=============================================================================
