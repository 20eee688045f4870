------------------------------- MODULE Players -------------------------------
(***************************************************************************)
(* The remote media players: MprisRemotePlugin (mprisremoteplugin.cpp) of  *)
(* a connection to the other device, MprisPlayersModel of the device page, *)
(* which lists them, and the DeviceApi object (dbus/kdeconnect.cpp) by     *)
(* which the page asks whether the plugin is loaded at all.                *)
(*                                                                         *)
(* Plugin and page are one thread.  The packets of a connection come in    *)
(* order; what D-Bus has to tell the page waits in the event loop.  The    *)
(* covers are in AlbumArt.  The other device, the daemon's loading and     *)
(* unloading of plugins and D-Bus are external.                            *)
(***************************************************************************)
EXTENDS Integers, Sequences, FiniteSets

CONSTANTS
  Player,      \* the media players that may run on the other device
  Spotify,     \* those that the code recognises as Spotify
  MaxChanges,  \* bounds what the user, the device and the network do
  None

\* allowed stands for canPlay, canPause, canGoNext, canGoPrevious and canSeek.
Status == [isPlaying: BOOLEAN, allowed: BOOLEAN, pos: {-1, 0, 1}]

ASSUME PlayersAssumption ==
  /\ Spotify \subseteq Player /\ IsFiniteSet(Player) /\ MaxChanges \in Nat
  /\ None \notin Status \cup BOOLEAN

VARIABLES
  link,        \* the devices are connected
  enabled,     \* the user wants the plugin
  m_players,   \* the plugin's players and what it knows of each
  pending,     \* the signals that receivePacket has yet to emit
  remote,      \* what runs on the other device
  toDevice, fromDevice,  \* packets on their way
  page,        \* the device page: closed, or the pointer m_plugin of its model
  shown,       \* the rows of the model and what their delegates show
  connected,   \* the players whose propertiesChanged the model hears
  m_loadedPlugins,  \* DeviceApi: what it remembers of the plugin
  pageShows,   \* what the page has asked last
  notices,     \* D-Bus signals pluginsChanged under way to the DeviceApi
  changes

pluginVars == <<m_players, pending>>
wireVars == <<remote, toDevice, fromDevice>>
modelVars == <<page, shown, connected>>
apiVars == <<m_loadedPlugins, pageShows, notices>>
vars == <<link, enabled, m_players, pending, remote, toDevice, fromDevice, page, shown, connected,
          m_loadedPlugins, pageShows, notices, changes>>

Field == {"isPlaying", "allowed", "pos"}
MprisPlayer == [isPlaying |-> FALSE, allowed |-> FALSE, pos |-> -1]
NoPlayers == [p \in Player |-> None]
Known(players) == {p \in Player : players[p] # None}
Quiet == [added |-> {}, removed |-> {}]
loaded == link /\ enabled

Fields == {[f \in F |-> s[f]] : s \in Status, F \in SUBSET Field}
Packet ==
  [kind: {"list"}, players: SUBSET Player] \cup [kind: {"status"}, player: Player, fields: Fields]
Request ==
  [kind: {"requestPlayerList"}] \cup [kind: {"status", "action", "Stop", "seek"}, player: Player]
    \cup [kind: {"SetPosition"}, player: Player, pos: {0, 1}]

TypeOK ==
  /\ link \in BOOLEAN /\ enabled \in BOOLEAN
  /\ m_players \in [Player -> Status \cup {None}] /\ remote \in [Player -> Status \cup {None}]
  /\ pending \in [added: SUBSET Known(m_players), removed: SUBSET (Player \ Known(m_players))]
  /\ toDevice \in Seq(Request) /\ fromDevice \in Seq(Packet)
  /\ page \in {"closed", "noPlugin", "plugin"}
  /\ shown \in [Player -> Status \cup {None}] /\ connected \subseteq Player
  /\ m_loadedPlugins \in BOOLEAN \cup {None} /\ pageShows \in BOOLEAN
  /\ notices \in Nat /\ changes \in 0..MaxChanges

Init ==
  /\ link = FALSE /\ enabled \in BOOLEAN
  /\ m_players = NoPlayers /\ pending = Quiet
  /\ remote = NoPlayers /\ toDevice = <<>> /\ fromDevice = <<>>
  /\ page = "closed" /\ shown = NoPlayers /\ connected = {}
  /\ m_loadedPlugins = None /\ pageShows = FALSE /\ notices = 0
  /\ changes = 0

Change == changes < MaxChanges /\ changes' = changes + 1
Emitted == pending = Quiet   \* the thread is free for something else

sendPacket(np) == toDevice' = Append(toDevice, np)

-----------------------------------------------------------------------------
(* MprisPlayersModel.                                                      *)

\* What data() reads for a row, through the pointer to its player.
data(p, players) == players[p]

\* The delegates read data() as a row comes, and again at dataChanged.
connectPlayer(p, players) == connected' = connected \cup {p} /\ shown' = [shown EXCEPT ![p] = data(p, players)]

setPlugin(plugin, players) ==
  IF page = plugin THEN UNCHANGED modelVars
  ELSE /\ page' = plugin
       /\ shown' = IF plugin = "plugin" THEN [p \in Player |-> data(p, players)] ELSE NoPlayers
       /\ connected' = IF plugin = "plugin" THEN Known(players) ELSE {}

\* A plugin that goes takes its players and their connections along.
pluginDestroyed == setPlugin("noPlugin", NoPlayers)

devicePluginsChanged(isLoaded, players) ==
  IF page = "closed" THEN UNCHANGED modelVars
  ELSE setPlugin(IF isLoaded THEN "plugin" ELSE "noPlugin", players)

\* (Names with an underscore are faulty variants that a run must refute.)
\* Fault: a player that comes is shown, and not listened to.
playerAdded_NotConnected(p) ==
  IF page # "plugin" \/ shown[p] # None THEN UNCHANGED modelVars
  ELSE shown' = [shown EXCEPT ![p] = data(p, m_players)] /\ UNCHANGED <<page, connected>>

playerAdded(p) ==
  IF page # "plugin" \/ shown[p] # None THEN UNCHANGED modelVars
  ELSE connectPlayer(p, m_players) /\ UNCHANGED page

playerRemoved(p) ==
  IF page # "plugin" \/ shown[p] = None THEN UNCHANGED modelVars
  ELSE /\ shown' = [shown EXCEPT ![p] = None]
       /\ connected' = connected \ {p}   \* the player is deleted next
       /\ UNCHANGED page

playerUpdated(p, players) ==
  IF p \in connected /\ shown[p] # None
  THEN shown' = [shown EXCEPT ![p] = data(p, players)] /\ UNCHANGED <<page, connected>>
  ELSE UNCHANGED modelVars

-----------------------------------------------------------------------------
(* MprisPlayer and MprisRemotePlugin.                                      *)

\* MprisPlayer::receivePacket.  A packet holds what has changed; the position
\* that Spotify tells is not believed.
Received(p, fields) ==
  [f \in Field |-> IF f \in DOMAIN fields /\ ~(f = "pos" /\ p \in Spotify) THEN fields[f] ELSE m_players[p][f]]

receiveStatus(np) ==
  /\ IF m_players[np.player] = None THEN UNCHANGED <<m_players, modelVars>>
     ELSE /\ m_players' = [m_players EXCEPT ![np.player] = Received(np.player, np.fields)]
          /\ playerUpdated(np.player, m_players')
  /\ UNCHANGED <<pending, toDevice>>

\* Fault: no status is asked for; a change of the player will tell.
requestPlayerStatus_Waits(ps) == UNCHANGED toDevice

\* The iteration over a QSet, in whatever order.
requestPlayerStatus(ps) ==
  \E order \in [1..Cardinality(ps) -> ps] :
    /\ {order[i] : i \in DOMAIN order} = ps
    /\ toDevice' = toDevice \o [i \in DOMAIN order |-> [kind |-> "status", player |-> order[i]]]

receiveList(np) ==
  LET added == np.players \ Known(m_players)
      removed == Known(m_players) \ np.players
  IN /\ m_players' = [p \in Player |-> IF p \in added THEN MprisPlayer
                                       ELSE IF p \in removed THEN None ELSE m_players[p]]
     /\ requestPlayerStatus(added)
     /\ pending' = [added |-> added, removed |-> removed]
     /\ UNCHANGED modelVars

receivePacket ==
  /\ Emitted /\ link /\ fromDevice # <<>>
  /\ fromDevice' = Tail(fromDevice)
  /\ \/ ~loaded /\ UNCHANGED <<pluginVars, toDevice, modelVars>>
     \/ loaded /\ Head(fromDevice).kind = "status" /\ receiveStatus(Head(fromDevice))
     \/ loaded /\ Head(fromDevice).kind = "list" /\ receiveList(Head(fromDevice))
  /\ UNCHANGED <<link, enabled, remote, apiVars, changes>>

\* The signals of the list, those of added players first.  In between the
\* views read the model.
EmitSignal ==
  /\ \/ \E p \in pending.added :
          /\ pending' = [pending EXCEPT !.added = @ \ {p}]
          /\ playerAdded(p)
     \/ /\ pending.added = {}
        /\ \E p \in pending.removed :
             /\ pending' = [pending EXCEPT !.removed = @ \ {p}]
             /\ playerRemoved(p)
  /\ UNCHANGED <<link, enabled, m_players, wireVars, apiVars, changes>>

seekAllowed(p) == m_players[p].allowed /\ m_players[p].pos >= 0 /\ p \notin Spotify

\* What the buttons of a delegate call.
sendCommand(p, method) ==
  /\ \/ method = "action" /\ m_players[p].allowed   \* playPause, play, pause, next, previous
     \/ method = "Stop"
     \/ method = "seek" /\ seekAllowed(p)
  /\ sendPacket([kind |-> method, player |-> p])
  /\ UNCHANGED <<m_players, modelVars>>

\* The position is shown as it is asked for.
setPosition(p, pos) ==
  /\ seekAllowed(p)
  /\ sendPacket([kind |-> "SetPosition", player |-> p, pos |-> pos])
  /\ m_players' = [m_players EXCEPT ![p].pos = pos]
  /\ playerUpdated(p, m_players')

Command(p) ==
  /\ Emitted /\ Change /\ shown[p] # None
  /\ \/ \E method \in {"action", "Stop", "seek"} : sendCommand(p, method)
     \/ \E pos \in {0, 1} : setPosition(p, pos)
  /\ UNCHANGED <<link, enabled, pending, remote, fromDevice, apiVars>>

-----------------------------------------------------------------------------
(* The daemon loads the plugin for a device that is connected if the user  *)
(* wants it, and deletes it else.  It says pluginsChanged at once to the   *)
(* model, and over D-Bus to the page's DeviceApi.                          *)

Reloaded(was, now, queued) ==
  IF was = now THEN toDevice' = queued /\ UNCHANGED <<m_players, modelVars, notices>>
  ELSE /\ m_players' = NoPlayers
       /\ IF now
          THEN /\ toDevice' = Append(queued, [kind |-> "requestPlayerList"])
               /\ devicePluginsChanged(TRUE, NoPlayers)
          ELSE /\ toDevice' = queued
               /\ IF page = "plugin" THEN pluginDestroyed ELSE devicePluginsChanged(FALSE, NoPlayers)
       /\ notices' = IF page = "closed" THEN notices ELSE notices + 1

\* What was on its way is lost with a connection.
LinkChanges ==
  /\ Emitted /\ Change
  /\ link' = ~link
  /\ fromDevice' = <<>>
  /\ Reloaded(loaded, ~link /\ enabled, <<>>)
  /\ UNCHANGED <<enabled, pending, remote, m_loadedPlugins, pageShows>>

\* DevicePluginsModel::setData; data() asks the daemon afresh.
setData(value) ==
  /\ Emitted /\ Change
  /\ enabled # value
  /\ enabled' = value
  /\ Reloaded(loaded, link /\ value, toDevice)
  /\ UNCHANGED <<link, pending, remote, fromDevice, m_loadedPlugins, pageShows>>

-----------------------------------------------------------------------------
(* DeviceApi, and PluginAction.qml, which shows an entry for the plugin.   *)

isPluginLoaded(cache) == IF cache = None THEN loaded ELSE cache

\* DeviceApi, the model with setDeviceId, and the entry are made anew.
OpenPage ==
  /\ Emitted /\ Change /\ page = "closed"
  /\ setPlugin(IF loaded THEN "plugin" ELSE "noPlugin", m_players)
  /\ m_loadedPlugins' = isPluginLoaded(None) /\ pageShows' = isPluginLoaded(None)
  /\ UNCHANGED <<link, enabled, pluginVars, wireVars, notices>>

ClosePage ==
  /\ Emitted /\ Change /\ page # "closed"
  /\ page' = "closed" /\ shown' = NoPlayers /\ connected' = {}
  /\ m_loadedPlugins' = None /\ pageShows' = FALSE /\ notices' = 0
  /\ UNCHANGED <<link, enabled, pluginVars, wireVars>>

\* Fault: the page is told first.
pluginsChanged_ProxyFirst ==
  /\ Emitted /\ notices > 0 /\ notices' = notices - 1
  /\ pageShows' = isPluginLoaded(m_loadedPlugins)
  /\ m_loadedPlugins' = None
  /\ UNCHANGED <<link, enabled, pluginVars, wireVars, modelVars, changes>>

\* The cache is dropped, then the page asks again.
pluginsChanged ==
  /\ Emitted /\ notices > 0 /\ notices' = notices - 1
  /\ pageShows' = isPluginLoaded(None)
  /\ m_loadedPlugins' = isPluginLoaded(None)
  /\ UNCHANGED <<link, enabled, pluginVars, wireVars, modelVars, changes>>

-----------------------------------------------------------------------------
(* The other device.                                                       *)

Tell(np) == fromDevice' = IF link THEN Append(fromDevice, np) ELSE <<>>
List(players) == [kind |-> "list", players |-> Known(players)]

RemoteComesOrGoes(p) ==
  /\ Change
  /\ remote' = [remote EXCEPT ![p] = IF @ # None THEN None ELSE [MprisPlayer EXCEPT !.allowed = TRUE, !.pos = 0]]
  /\ Tell(List(remote'))

\* A player changes, and what has changed is told.
RemoteSets(p, fields) ==
  /\ remote' = [remote EXCEPT ![p] = [f \in Field |-> IF f \in DOMAIN fields THEN fields[f] ELSE @[f]]]
  /\ Tell([kind |-> "status", player |-> p, fields |-> fields])

RemoteChanges(p) ==
  /\ Change /\ remote[p] # None
  /\ \/ RemoteSets(p, [isPlaying |-> ~remote[p].isPlaying])
     \/ RemoteSets(p, [allowed |-> ~remote[p].allowed])
     \/ RemoteSets(p, [pos |-> 1 - remote[p].pos])

Answer(np) ==
  CASE np.kind = "requestPlayerList" \/ remote[np.player] = None -> Tell(List(remote)) /\ UNCHANGED remote
    [] np.kind = "status" /\ remote[np.player] # None ->
         Tell([kind |-> "status", player |-> np.player, fields |-> remote[np.player]]) /\ UNCHANGED remote
    [] np.kind = "action" /\ remote[np.player] # None -> RemoteSets(np.player, [isPlaying |-> ~remote[np.player].isPlaying])
    [] np.kind = "Stop" /\ remote[np.player] # None -> RemoteSets(np.player, [isPlaying |-> FALSE])
    [] np.kind = "seek" /\ remote[np.player] # None -> RemoteSets(np.player, [pos |-> 1 - remote[np.player].pos])
    [] np.kind = "SetPosition" /\ remote[np.player] # None -> RemoteSets(np.player, [pos |-> np.pos])

RemoteAnswers ==
  /\ toDevice # <<>>
  /\ toDevice' = Tail(toDevice)
  /\ Answer(Head(toDevice))
  /\ UNCHANGED <<link, enabled, pluginVars, modelVars, apiVars, changes>>

RemoteActs ==
  /\ \E p \in Player : RemoteComesOrGoes(p) \/ RemoteChanges(p)
  /\ UNCHANGED <<link, enabled, pluginVars, toDevice, modelVars, apiVars>>

Next ==
  \/ receivePacket \/ EmitSignal \/ RemoteAnswers \/ RemoteActs
  \/ \E p \in Player : Command(p)
  \/ LinkChanges \/ \E value \in BOOLEAN : setData(value)
  \/ OpenPage \/ ClosePage \/ pluginsChanged

Spec == Init /\ [][Next]_vars

-----------------------------------------------------------------------------
(* Properties.                                                             *)

\* The page lists the players of the plugin, hears of their changes, and
\* shows them as the plugin knows them.  A player that is gone has a row only
\* until its removal is signalled: data() would follow a null pointer
\* (playerAdded, playerRemoved, pluginDestroyed and setPlugin, whatever comes
\* and goes in whichever order).
RowsHavePlayers ==
  /\ (page = "plugin") = (loaded /\ page # "closed")
  /\ \A p \in Player : shown[p] # None => m_players[p] # None \/ p \in pending.removed
  /\ page = "plugin" => \A p \in Player \ (pending.added \cup pending.removed) :
       shown[p] = m_players[p] /\ (p \in connected <=> m_players[p] # None)

\* When nothing is under way any more the plugin knows the players of the
\* device as they are, whatever was lost, changed, commanded or unloaded
\* before (receivePacket and the requests for the list and for each player of
\* it).  The position of Spotify is not known.
PlayersFollowDevice ==
  loaded /\ toDevice = <<>> /\ fromDevice = <<>> => \A p \in Player :
    /\ m_players[p] = None <=> remote[p] = None
    /\ remote[p] # None => \A f \in Field :
         m_players[p][f] = IF f = "pos" /\ p \in Spotify THEN -1 ELSE remote[p][f]

\* When D-Bus has delivered all, the page offers the plugin if and only if it
\* is loaded, and so does whatever asks the DeviceApi next (the cache of
\* loadedPlugins and the order of pluginsChanged and pluginsChangedProxy).
DeviceApiCurrent ==
  page # "closed" /\ notices = 0 => pageShows = loaded /\ isPluginLoaded(m_loadedPlugins) = loaded
=============================================================================
