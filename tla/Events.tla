------------------------------- MODULE Events -------------------------------
(***************************************************************************)
(* The events an application is handed, as far as filters, handlers and    *)
(* the role directory look into them: the kind, the message if it is one,  *)
(* and the room.                                                           *)
(***************************************************************************)
CONSTANTS
  Rooms, Users,       \* the ids that appear in keys and documents
  NoRoom, NoMessage

\* What the filters and handlers ask of a message.
Messages == [author : Users, rid : Rooms, system : BOOLEAN, edited : BOOLEAN,
             prefixed : BOOLEAN, mentions : SUBSET (Users \cup {"all", "here"})]

Event(kind, message, room) == [kind |-> kind, message |-> message, room |-> room]

Nothing == Event("none", NoMessage, NoRoom)
Resubscribed == Event("Resubscribed", NoMessage, NoRoom)

\* The kinds that carry a message somebody has posted.
Posted == {"MyMessage", "RoomMessage"}

=============================================================================
