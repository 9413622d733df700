--------------------------- MODULE PacketListeners ---------------------------
(***************************************************************************)
(* Packet listeners (packets.py, connection.py): an application thread     *)
(* registers them while the networking thread goes through them with each  *)
(* packet.  The packets to listen for are an attribute of the class: one   *)
(* list that all listeners fill and read.                                  *)
(***************************************************************************)
EXTENDS PacketCipher

CONSTANTS
  Registrations,  \* what listeners may be registered for: sequences of classes
  MaxListeners    \* bound: listeners registered

ASSUME ListenersAssumption == Registrations \subseteq Seq(Int) /\ MaxListeners \in Nat

VARIABLES
  packets_to_listen,  \* the classes, in the order they were added
  packet_listeners,   \* the listeners: what each was registered for
  registering,        \* the call under way: its arguments, how many are added
  calls               \* the callbacks made: of which listener, for which packet

listening == <<packets_to_listen, packet_listeners, registering, calls>>

\* A class is the id of a packet of the play state, or that of Packet itself.
Base == -1
IsInstance(packet, class) ==
  class = Base \/ (packet.table = "play" /\ packet.id = class)

\* The packet has the attribute json_data.
HasJson(packet) ==
  /\ <<packet.table, packet.id>> \in {<<"play", ChatMessage>>, <<"play", DisconnectPlay>>,
                                     <<"login", Disconnect>>}
  /\ packet.set[1].ok

\* The callback for chat messages is print_chat of start.py, which prints json_data;
\* those for anything else are not in the code and use nothing.
CallbackRaises(args, packet) == args = <<ChatMessage>> /\ ~HasJson(packet)

Idle == [busy |-> FALSE, args |-> <<>>, added |-> 0]

ListenersInit ==
  packets_to_listen = <<>> /\ packet_listeners = <<>> /\ registering = Idle /\ calls = {}

\* register_packet_listener begins to construct a PacketListener ...
Register ==
  /\ ~registering.busy /\ Len(packet_listeners) < MaxListeners
  /\ \E args \in Registrations :
       registering' = [busy |-> TRUE, args |-> args, added |-> 0]
  /\ UNCHANGED <<packets_to_listen, packet_listeners, calls>>

\* ... which adds each of its arguments to the list of the class ...
AddClass ==
  /\ registering.busy /\ registering.added < Len(registering.args)
  /\ registering' = [registering EXCEPT !.added = @ + 1]
  /\ packets_to_listen' = Append(packets_to_listen, registering.args[registering'.added])
  /\ UNCHANGED <<packet_listeners, calls>>

\* Mutant of AddListener: the new listener takes the place of the last.
AddListenerOver ==
  /\ registering.busy /\ registering.added = Len(registering.args)
  /\ packet_listeners' = <<registering.args>> /\ registering' = Idle
  /\ UNCHANGED <<packets_to_listen, calls>>

\* ... and adds the listener to those of the connection.
AddListener ==
  /\ registering.busy /\ registering.added = Len(registering.args)
  /\ packet_listeners' = Append(packet_listeners, registering.args)
  /\ registering' = Idle
  /\ UNCHANGED <<packets_to_listen, calls>>

-----------------------------------------------------------------------------
(* The networking thread is at <<l, t>>: at the t-th class for the l-th      *)
(* listener.  Both lists may grow while it goes through them.                *)

\* No listener is left: the loop over the listeners ends.
AllCalled(at) == at[1] > Len(packet_listeners)

\* call_packet: the callback is called once for each class that fits.
Calls(at, packet) ==
  at[2] <= Len(packets_to_listen) /\ IsInstance(packet, packets_to_listen[at[2]])

NextAt(at) ==
  IF at[2] > Len(packets_to_listen) THEN <<at[1] + 1, 1>> ELSE <<at[1], at[2] + 1>>

\* The callback raises: that ends the thread.
Breaks(at, packet) ==
  Calls(at, packet) /\ CallbackRaises(packet_listeners[at[1]], packet)

CallNext(at, packet, number) ==
  /\ calls' = IF Calls(at, packet) THEN calls \cup {<<at[1], number>>} ELSE calls
  /\ UNCHANGED <<packets_to_listen, packet_listeners, registering>>
=============================================================================
