---------------------------- MODULE PlayerWorlds ----------------------------
(***************************************************************************)
(* PlayerListener and the commands /fun and /nofun of MyPlugin: a list of  *)
(* names with the permission to build, an attachment per player who is     *)
(* logged in, and a world per player with the permission.  Every handler   *)
(* runs on the main thread of the Minecraft server, to its end or to its   *)
(* first exception; an exception ends the handler and leaves what it has   *)
(* done.  Bukkit, which loads and unloads worlds, is external.             *)
(***************************************************************************)
EXTENDS Naturals

CONSTANTS
  Players,      \* the names of the players, and what is typed after /fun
  Extends,      \* <<s, p>>: the name p begins with s and is longer
  MaxSessions,  \* bound: logins of a player
  MaxRestarts,  \* bound: crashes of the server
  Refusals      \* Bukkit may refuse to make or to unload a world, the disk to
                \* delete a folder

ASSUME PlayersAssumption ==
  /\ Extends \subseteq Players \X Players
  /\ MaxSessions \in Nat /\ MaxRestarts \in Nat /\ Refusals \in BOOLEAN

VARIABLES
  config, saved,   \* the names on the list: in memory, in config.yml
  online, op,      \* the players logged in, the operators
  session,         \* logins of each player
  granted,         \* what the attachment of the current session says
  attachments,     \* the map: the session whose attachment it holds, by player
  playerIps,       \* the keys of the map
  loaded, folders, \* the worlds that are loaded, the world folders on disk
  left,            \* worlds still loaded after a logout or a /nofun of their player
  failed,          \* players whose world could not be made when it last should be
  revoked,         \* the names /nofun was last typed for, not /fun
  restarts

worlds == <<config, saved, online, op, session, granted, attachments, playerIps,
            loaded, folders, left, failed, revoked, restarts>>

Put(m, k, v) == [x \in DOMAIN m \cup {k} |-> IF x = k THEN v ELSE m[x]]
Without(m, k) == [x \in DOMAIN m \ {k} |-> m[x]]

WorldsTypeOK ==
  /\ config \subseteq Players /\ saved \subseteq Players
  /\ online \subseteq Players /\ op \subseteq Players
  /\ session \in [Players -> Nat]
  /\ granted \in [Players -> {"unset", "yes", "no"}]
  /\ DOMAIN attachments \subseteq Players
  /\ \A p \in DOMAIN attachments : attachments[p] \in Nat
  /\ playerIps \subseteq Players
  /\ loaded \subseteq Players /\ folders \subseteq Players
  /\ left \subseteq Players /\ failed \subseteq Players
  /\ revoked \subseteq Players /\ restarts \in Nat

\* onEnable, on a server that has never run the plugin.
WorldsInit ==
  /\ config = {} /\ saved = {} /\ online = {} /\ op = {}
  /\ session = [p \in Players |-> 0] /\ granted = [p \in Players |-> "unset"]
  /\ attachments = [p \in {} |-> 0] /\ playerIps = {}
  /\ loaded = {} /\ folders = {} /\ left = {} /\ failed = {} /\ revoked = {} /\ restarts = 0
-----------------------------------------------------------------------------
(* Bukkit (external) *)

\* player.hasPermission(PERM): an operator has what no attachment decides.
HasPermission(p, grant) == grant = "yes" \/ (grant = "unset" /\ p \in op)

\* Bukkit.getServer().getPlayer(s): the player of that name, or one whose name
\* begins so; none at all is null.
Matches(s) == IF s \in online THEN {s} ELSE {p \in online : <<s, p>> \in Extends}

Operator(p) ==
  /\ op' = IF p \in op THEN op \ {p} ELSE op \cup {p}
  /\ UNCHANGED <<config, saved, online, session, granted, attachments, playerIps,
                 loaded, folders, left, failed, revoked, restarts>>
-----------------------------------------------------------------------------
(* PlayerListener *)

\* createPlayerWorld: createWorld gives a world that is loaded as it is, whether or
\* not it has a folder; it loads any other from its folder or generates it, or it
\* returns null or raises, and the handler ends.
CreatePlayerWorld(p) ==
  /\ \/ p \in loaded /\ UNCHANGED <<loaded, folders>>
     \/ p \notin loaded /\ loaded' = loaded \cup {p} /\ folders' = folders \cup {p}
     \/ p \notin loaded /\ Refusals /\ UNCHANGED <<loaded, folders>>
  /\ failed' = IF p \in loaded' THEN failed \ {p} ELSE failed \cup {p}
  /\ UNCHANGED left

\* deletePlayerWorld: unload, whose result is not looked at, then delete the
\* folder, as far as that succeeds.  Its condition is that the player has a
\* world: getWorld returns null otherwise and unloadWorld raises.
DeletePlayerWorld(p) ==
  /\ loaded' \in {loaded \ {p}} \cup (IF Refusals THEN {loaded} ELSE {})
  /\ folders' \in {folders \ {p}} \cup (IF Refusals THEN {folders} ELSE {})
  /\ left' = (left \cup {p}) \cap loaded' /\ UNCHANGED failed

\* deleteStringWorld: the folder of a world that is loaded.
DeleteStringWorld(s) ==
  folders' \in IF s \notin loaded THEN {folders}
              ELSE {folders \ {s}} \cup (IF Refusals THEN {folders} ELSE {})

\* Mutant of LoggedIn: an attachment the map holds already is kept.
LoggedInOnce(p) ==
  /\ p \notin online /\ session[p] < MaxSessions
  /\ online' = online \cup {p} /\ session' = [session EXCEPT ![p] = @ + 1]
  /\ attachments' = IF p \in DOMAIN attachments THEN attachments
                    ELSE Put(attachments, p, session'[p])
  /\ granted' = [granted EXCEPT ![p] = IF p \in config THEN "yes" ELSE "unset"]
  /\ IF HasPermission(p, granted'[p])
       THEN /\ CreatePlayerWorld(p)
            /\ playerIps' = IF p \in loaded' THEN playerIps \cup {p} ELSE playerIps
       ELSE playerIps' = playerIps \cup {p} /\ UNCHANGED <<loaded, folders, left, failed>>
  /\ UNCHANGED <<config, saved, op, revoked, restarts>>

\* playerLoggedIn.
LoggedIn(p) ==
  /\ p \notin online /\ session[p] < MaxSessions
  /\ online' = online \cup {p} /\ session' = [session EXCEPT ![p] = @ + 1]
  /\ attachments' = Put(attachments, p, session'[p])
  /\ granted' = [granted EXCEPT ![p] = IF p \in config THEN "yes" ELSE "unset"]
  /\ IF HasPermission(p, granted'[p])
       THEN /\ CreatePlayerWorld(p)
            /\ playerIps' = IF p \in loaded' THEN playerIps \cup {p} ELSE playerIps
       ELSE playerIps' = playerIps \cup {p} /\ UNCHANGED <<loaded, folders, left, failed>>
  /\ UNCHANGED <<config, saved, op, revoked, restarts>>

\* playerLoggedOut raises in deletePlayerWorld: nothing after it is done.
LogoutFails(p) == HasPermission(p, granted[p]) /\ p \notin loaded

\* playerLoggedOut.  attachments.remove is given the attachment for a key and
\* removes nothing.
LoggedOut(p) ==
  /\ p \in online /\ online' = online \ {p}
  /\ IF HasPermission(p, granted[p]) /\ ~LogoutFails(p)
       THEN DeletePlayerWorld(p)
       ELSE /\ left' = (left \cup {p}) \cap loaded
            /\ UNCHANGED <<loaded, folders, failed>>
  /\ playerIps' = IF LogoutFails(p) THEN playerIps ELSE playerIps \ {p}
  /\ UNCHANGED <<config, saved, op, session, granted, attachments, revoked, restarts>>
-----------------------------------------------------------------------------
(* The commands of MyPlugin *)

\* /fun s: the list gets what was typed, the attachment of the player found.  A
\* world that cannot be made raises before the list is saved.
Fun(s) ==
  /\ config' = config \cup {s} /\ revoked' = revoked \ {s}
  /\ \/ /\ Matches(s) = {} /\ saved' = config'
        /\ UNCHANGED <<granted, loaded, folders, left, failed>>
     \/ \E p \in Matches(s) :
          /\ granted' = [granted EXCEPT ![p] = "yes"] /\ CreatePlayerWorld(p)
          /\ saved' = IF p \in loaded' THEN config' ELSE saved
  /\ UNCHANGED <<online, op, session, attachments, playerIps, restarts>>

\* Mutant of Nofun: the world is deleted, the permission stays.
NofunKeepsGrant(s) ==
  /\ config' = config \ {s} /\ revoked' = revoked \cup {s}
  /\ \/ /\ Matches(s) = {} /\ DeleteStringWorld(s)
        /\ saved' = config' /\ UNCHANGED <<granted, loaded, left, failed>>
     \/ \E p \in Matches(s) :
          /\ UNCHANGED granted
          /\ IF p \in loaded
               THEN DeletePlayerWorld(p) /\ saved' = config'
               ELSE UNCHANGED <<loaded, folders, left, failed, saved>>
  /\ UNCHANGED <<online, op, session, attachments, playerIps, restarts>>

\* /nofun s; a player without a world makes deletePlayerWorld raise, before the
\* list is saved.
Nofun(s) ==
  /\ config' = config \ {s} /\ revoked' = revoked \cup {s}
  /\ \/ /\ Matches(s) = {} /\ DeleteStringWorld(s)
        /\ saved' = config' /\ UNCHANGED <<granted, loaded, left, failed>>
     \/ \E p \in Matches(s) :
          /\ granted' = [granted EXCEPT ![p] = "no"]
          /\ IF p \in loaded
               THEN DeletePlayerWorld(p) /\ saved' = config'
               ELSE UNCHANGED <<loaded, folders, left, failed, saved>>
  /\ UNCHANGED <<online, op, session, attachments, playerIps, restarts>>

\* The server stops, and onEnable starts from what is on disk.
Restart ==
  /\ restarts < MaxRestarts /\ restarts' = restarts + 1
  /\ config' = saved /\ online' = {} /\ loaded' = {} /\ left' = {} /\ failed' = {}
  /\ attachments' = [p \in {} |-> 0] /\ playerIps' = {}
  /\ UNCHANGED <<saved, op, session, granted, folders, revoked>>

WorldsNext ==
  \/ \E p \in Players : LoggedIn(p) \/ LoggedOut(p) \/ Operator(p)
  \/ \E s \in Players : Fun(s) \/ Nofun(s)
  \/ Restart

WorldsSpec == WorldsInit /\ [][WorldsNext]_worlds
-----------------------------------------------------------------------------
(* Safety *)

\* A player who is logged in and was given the permission has a world, unless it
\* could not be made at the login or the /fun; and a world without a folder is one
\* that a logout or a /nofun of its player has left loaded.  No command typed for
\* another name and no restart takes world or folder from under a player's feet.
WorldOfPermitted ==
  /\ \A p \in online : granted[p] = "yes" => p \in loaded \cup failed
  /\ loaded \ folders \subseteq left

\* The attachment /fun and /nofun find for a player who is logged in is the one
\* of that login, though no logout ever takes one out of the map.
AttachmentCurrent ==
  \A p \in online : p \in DOMAIN attachments /\ attachments[p] = session[p]
-----------------------------------------------------------------------------
(* What a comment says and the code does not do *)

\* MyPlugin.java:89: /nofun removes the permission, so no restart brings it back.
NofunRemoves == revoked \cap saved = {}
=============================================================================
