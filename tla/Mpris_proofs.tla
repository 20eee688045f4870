---------------------------- MODULE Mpris_proofs -----------------------------
(***************************************************************************)
(* Proofs about the two parts of the Mpris remote control, Players.tla and *)
(* AlbumArt.tla, which share nothing but the plugin.                       *)
(*                                                                         *)
(* Players, for any players and any number of changes: a row of the page   *)
(* has a player to read, the rows are those of the plugin, the page's      *)
(* DeviceApi is right once D-Bus has delivered, and so is what the plugin  *)
(* knows of the device once all packets have arrived.  That needs to know  *)
(* what is under way: Signalled says that a player whose coming is about   *)
(* to be signalled has no row yet, and one whose going is, still has its   *)
(* row; FollowInv says the same of the packets of both directions.         *)
(*                                                                         *)
(* AlbumArt, for any number of pictures, responses and redirects: a        *)
(* picture is fetched by one job at a time, what is shown is a picture,    *)
(* and a file in the cache is never touched again.                         *)
(***************************************************************************)
EXTENDS Players, AlbumArt, FiniteSetTheorems, SequenceTheorems, TLAPS

-----------------------------------------------------------------------------
(* Types.                                                                  *)

LocalType ==
  /\ link \in BOOLEAN /\ enabled \in BOOLEAN
  /\ m_players \in [Player -> Status \cup {None}]
  /\ pending \in [added: SUBSET Known(m_players), removed: SUBSET (Player \ Known(m_players))]
  /\ page \in {"closed", "noPlugin", "plugin"}
  /\ shown \in [Player -> Status \cup {None}] /\ connected \subseteq Player
  /\ m_loadedPlugins \in BOOLEAN \cup {None} /\ pageShows \in BOOLEAN
  /\ notices \in Nat /\ changes \in 0..MaxChanges

WireType ==
  /\ remote \in [Player -> Status \cup {None}]
  /\ toDevice \in Seq(Request) /\ fromDevice \in Seq(Packet)

LEMMA TypeSplits == TypeOK <=> LocalType /\ WireType
BY DEF TypeOK, LocalType, WireType

LEMMA StatusFields ==
  ASSUME NEW s \in Status
  PROVE  /\ DOMAIN s = Field /\ s.isPlaying \in BOOLEAN /\ s.allowed \in BOOLEAN
         /\ s.pos \in {-1, 0, 1}
         /\ s \in Fields
<1>1. DOMAIN s = Field
  BY DEF Status, Field
<1>2. s = [f \in Field |-> s[f]]
  BY <1>1 DEF Status
<1> QED
  BY <1>1, <1>2 DEF Status, Fields

LEMMA StatusMade ==
  ASSUME NEW g, g = [f \in Field |-> g[f]],
         g["isPlaying"] \in BOOLEAN, g["allowed"] \in BOOLEAN, g["pos"] \in {-1, 0, 1}
  PROVE  g \in Status
BY DEF Status, Field

(* A packet's fields are those of some status.                             *)
LEMMA FieldsKnow ==
  ASSUME NEW g \in Fields
  PROVE  /\ DOMAIN g \subseteq Field
         /\ \A f \in DOMAIN g : /\ f = "pos" => g[f] \in {-1, 0, 1}
                                /\ f # "pos" => g[f] \in BOOLEAN
<1>1. PICK s \in Status, F \in SUBSET Field : g = [f \in F |-> s[f]]
  BY DEF Fields
<1>2. DOMAIN g = F /\ \A f \in F : g[f] = s[f]
  BY <1>1
<1> QED
  BY <1>2, StatusFields DEF Field

LEMMA SomeFields ==
  ASSUME NEW s \in Status, NEW F \in SUBSET Field
  PROVE  [x \in F |-> s[x]] \in Fields
BY DEF Fields

LEMMA OneField ==
  ASSUME NEW b \in BOOLEAN, NEW v \in {0, 1}
  PROVE  [isPlaying |-> b] \in Fields /\ [allowed |-> b] \in Fields /\ [pos |-> v] \in Fields
<1> DEFINE s == [isPlaying |-> b, allowed |-> b, pos |-> v]
<1>1. s \in Status
  BY DEF Status
<1>2. [x \in {"isPlaying"} |-> s[x]] \in Fields /\ [x \in {"allowed"} |-> s[x]] \in Fields
      /\ [x \in {"pos"} |-> s[x]] \in Fields
  <2>1. {"isPlaying"} \in SUBSET Field /\ {"allowed"} \in SUBSET Field /\ {"pos"} \in SUBSET Field
    BY DEF Field
  <2> HIDE DEF s
  <2> QED
    BY <1>1, <2>1, SomeFields
<1>3. /\ [x \in {"isPlaying"} |-> s[x]] = [isPlaying |-> b]
      /\ [x \in {"allowed"} |-> s[x]] = [allowed |-> b]
      /\ [x \in {"pos"} |-> s[x]] = [pos |-> v]
  OBVIOUS
<1> QED
  BY <1>2, <1>3

LEMMA ReceivedIsStatus ==
  ASSUME NEW p \in Player, NEW fields \in Fields, m_players[p] \in Status
  PROVE  Received(p, fields) \in Status
<1> DEFINE g == Received(p, fields)
<1>1. g = [f \in Field |-> g[f]]
  BY DEF Received
<1>2. g["isPlaying"] \in BOOLEAN
  BY FieldsKnow, StatusFields DEF Received, Field
<1>3. g["allowed"] \in BOOLEAN
  BY FieldsKnow, StatusFields DEF Received, Field
<1>4. g["pos"] \in {-1, 0, 1}
  BY FieldsKnow, StatusFields DEF Received, Field
<1> QED
  BY <1>1, <1>2, <1>3, <1>4, StatusMade

LEMMA NewPlayer == MprisPlayer \in Status
BY DEF MprisPlayer, Status

LEMMA PacketParts ==
  ASSUME NEW np \in Packet
  PROVE  /\ np.kind \in {"list", "status"}
         /\ np.kind = "list" => np.players \subseteq Player
         /\ np.kind = "status" => np.player \in Player /\ np.fields \in Fields
BY DEF Packet

LEMMA RequestParts ==
  ASSUME NEW np \in Request
  PROVE  /\ np.kind \in {"requestPlayerList", "status", "action", "Stop", "seek", "SetPosition"}
         /\ np.kind # "requestPlayerList" => np.player \in Player
         /\ np.kind = "SetPosition" => np.pos \in {0, 1}
BY DEF Request

LEMMA PacketsMade ==
  /\ \A ps \in SUBSET Player : [kind |-> "list", players |-> ps] \in Packet
  /\ \A p \in Player, g \in Fields : [kind |-> "status", player |-> p, fields |-> g] \in Packet
BY DEF Packet

LEMMA RequestsMade ==
  /\ [kind |-> "requestPlayerList"] \in Request
  /\ \A p \in Player, k \in {"status", "action", "Stop", "seek"} : [kind |-> k, player |-> p] \in Request
  /\ \A p \in Player, v \in {0, 1} : [kind |-> "SetPosition", player |-> p, pos |-> v] \in Request
BY DEF Request

LEMMA Sent ==
  ASSUME toDevice \in Seq(Request), NEW np \in Request, sendPacket(np)
  PROVE  toDevice' \in Seq(Request)
BY DEF sendPacket

LEMMA RequestsStay ==
  ASSUME NEW ps \in SUBSET Player, toDevice \in Seq(Request), requestPlayerStatus(ps)
  PROVE  toDevice' \in Seq(Request)
<1>1. IsFiniteSet(ps)
  BY PlayersAssumption, FS_Subset
<1>2. Cardinality(ps) \in Nat
  BY <1>1, FS_CardinalityType
<1>3. PICK order \in [1..Cardinality(ps) -> ps] :
        toDevice' = toDevice \o [i \in DOMAIN order |-> [kind |-> "status", player |-> order[i]]]
  BY DEF requestPlayerStatus
<1> DEFINE new == [i \in 1..Cardinality(ps) |-> [kind |-> "status", player |-> order[i]]]
<1>4. \A i \in 1..Cardinality(ps) : order[i] \in Player
  OBVIOUS
<1>5. \A i \in 1..Cardinality(ps) : [kind |-> "status", player |-> order[i]] \in Request
  BY <1>4, RequestsMade
<1>6. new \in Seq(Request)
  BY <1>2, <1>5
<1>7. toDevice' = toDevice \o new
  BY <1>3
<1> HIDE DEF new
<1> QED
  BY <1>6, <1>7, ConcatProperties

-----------------------------------------------------------------------------
(* What holds of the wire.                                                 *)

RemoteKnows == \A p \in Player : remote[p] # None => remote[p].pos \in {0, 1}

WireInv == WireType /\ RemoteKnows

LEMMA Told ==
  ASSUME WireType, NEW np \in Packet, Tell(np)
  PROVE  fromDevice' \in Seq(Packet)
BY DEF Tell, WireType

LEMMA ListIsPacket == \A r : List(r) \in Packet
<1> TAKE r
<1>1. Known(r) \in SUBSET Player
  BY DEF Known
<1> QED
  BY <1>1, PacketsMade DEF List

LEMMA RemoteSetsKeeps ==
  ASSUME WireInv, NEW p \in Player, remote[p] # None, NEW fields \in Fields,
         \A f \in DOMAIN fields : f = "pos" => fields[f] \in {0, 1},
         RemoteSets(p, fields)
  PROVE  remote' \in [Player -> Status \cup {None}] /\ RemoteKnows' /\ fromDevice' \in Seq(Packet)
<1> DEFINE g == [f \in Field |-> IF f \in DOMAIN fields THEN fields[f] ELSE remote[p][f]]
<1>1. remote[p] \in Status /\ remote[p]["pos"] \in {0, 1}
  BY DEF WireInv, WireType, RemoteKnows
<1>2. g["isPlaying"] \in BOOLEAN /\ g["allowed"] \in BOOLEAN
  BY <1>1, FieldsKnow, StatusFields DEF Field
<1>3. g["pos"] \in {0, 1}
  BY <1>1 DEF Field
<1>4. g \in Status
  BY <1>2, <1>3, StatusMade
<1>5. remote' = [remote EXCEPT ![p] = g]
  BY DEF RemoteSets
<1>6. remote' \in [Player -> Status \cup {None}]
  BY <1>4, <1>5 DEF WireInv, WireType
<1>7. RemoteKnows'
  BY <1>3, <1>5 DEF WireInv, WireType, RemoteKnows
<1>8. [kind |-> "status", player |-> p, fields |-> fields] \in Packet
  BY PacketsMade
<1>9. fromDevice' \in Seq(Packet)
  BY <1>8, Told DEF RemoteSets, WireInv
<1> QED
  BY <1>6, <1>7, <1>9

(* The same, for one field.                                                *)
LEMMA SetsKeeps ==
  ASSUME WireInv, NEW p \in Player, remote[p] # None, NEW b \in BOOLEAN, NEW v \in {0, 1},
         \/ RemoteSets(p, [isPlaying |-> b])
         \/ RemoteSets(p, [allowed |-> b])
         \/ RemoteSets(p, [pos |-> v])
  PROVE  remote' \in [Player -> Status \cup {None}] /\ RemoteKnows' /\ fromDevice' \in Seq(Packet)
<1>1. CASE RemoteSets(p, [isPlaying |-> b])
  <2> DEFINE g == [isPlaying |-> b]
  <2>1. g \in Fields /\ \A f \in DOMAIN g : f = "pos" => g[f] \in {0, 1}
    BY OneField
  <2> QED
    BY <1>1, <2>1, RemoteSetsKeeps
<1>2. CASE RemoteSets(p, [allowed |-> b])
  <2> DEFINE g == [allowed |-> b]
  <2>1. g \in Fields /\ \A f \in DOMAIN g : f = "pos" => g[f] \in {0, 1}
    BY OneField
  <2> QED
    BY <1>2, <2>1, RemoteSetsKeeps
<1>3. CASE RemoteSets(p, [pos |-> v])
  <2> DEFINE g == [pos |-> v]
  <2>1. g \in Fields /\ \A f \in DOMAIN g : f = "pos" => g[f] \in {0, 1}
    BY OneField
  <2> QED
    BY <1>3, <2>1, RemoteSetsKeeps
<1> QED
  BY <1>1, <1>2, <1>3

LEMMA RemoteActsKeeps ==
  ASSUME WireInv, RemoteActs
  PROVE  WireInv'
<1>1. PICK p \in Player : RemoteComesOrGoes(p) \/ RemoteChanges(p)
  BY DEF RemoteActs
<1>2. toDevice' = toDevice
  BY DEF RemoteActs
<1>3. CASE RemoteComesOrGoes(p)
  <2> DEFINE new == [MprisPlayer EXCEPT !.allowed = TRUE, !.pos = 0]
  <2>1. new \in Status /\ new.pos = 0
    BY DEF MprisPlayer, Status
  <2>2. remote' = [remote EXCEPT ![p] = IF remote[p] # None THEN None ELSE new]
    BY <1>3 DEF RemoteComesOrGoes
  <2> HIDE DEF new
  <2>3. remote' \in [Player -> Status \cup {None}] /\ RemoteKnows'
    BY <2>1, <2>2 DEF WireInv, WireType, RemoteKnows
  <2>4. fromDevice' \in Seq(Packet)
    <3>1. List(remote') \in Packet
      BY ListIsPacket
    <3> QED
      BY <1>3, <3>1, Told DEF RemoteComesOrGoes, WireInv
  <2> QED
    BY <1>2, <2>3, <2>4 DEF WireInv, WireType
<1>4. CASE RemoteChanges(p)
  <2>1. remote[p] # None /\ remote[p] \in Status /\ remote[p].pos \in {0, 1}
    BY <1>4 DEF RemoteChanges, WireInv, WireType, RemoteKnows
  <2>2. (~remote[p].isPlaying) \in BOOLEAN /\ (~remote[p].allowed) \in BOOLEAN /\ 1 - remote[p].pos \in {0, 1}
    BY <2>1
  <2>3. remote' \in [Player -> Status \cup {None}] /\ RemoteKnows' /\ fromDevice' \in Seq(Packet)
    <3>1. CASE RemoteSets(p, [isPlaying |-> ~remote[p].isPlaying])
      BY <2>1, <2>2, <3>1, SetsKeeps
    <3>2. CASE RemoteSets(p, [allowed |-> ~remote[p].allowed])
      BY <2>1, <2>2, <3>2, SetsKeeps
    <3>3. CASE RemoteSets(p, [pos |-> 1 - remote[p].pos])
      BY <2>1, <2>2, <3>3, SetsKeeps
    <3> QED
      BY <1>4, <3>1, <3>2, <3>3 DEF RemoteChanges
  <2> QED
    BY <1>2, <2>3 DEF WireInv, WireType
<1> QED
  BY <1>1, <1>3, <1>4

LEMMA RemoteAnswersKeeps ==
  ASSUME WireInv, RemoteAnswers
  PROVE  WireInv'
<1> DEFINE np == Head(toDevice)
<1>1. np \in Request /\ toDevice' \in Seq(Request)
  BY DEF RemoteAnswers, WireInv, WireType
<1>2. Answer(np)
  BY DEF RemoteAnswers
<1> HIDE DEF np
<1>3. CASE np.kind = "requestPlayerList" \/ remote[np.player] = None
  <2>1. Tell(List(remote)) /\ UNCHANGED remote
    BY <1>2, <1>3 DEF Answer
  <2> QED
    BY <1>1, <2>1, Told, ListIsPacket DEF WireInv, WireType, RemoteKnows
<1>4. CASE np.kind # "requestPlayerList" /\ remote[np.player] # None
  <2>1. np.player \in Player /\ remote[np.player] \in Status /\ remote[np.player].pos \in {0, 1}
    BY <1>1, <1>4, RequestParts DEF WireInv, WireType, RemoteKnows
  <2>2. np.kind \in {"status", "action", "Stop", "seek", "SetPosition"}
    BY <1>1, <1>4, RequestParts
  <2>3. CASE np.kind = "status"
    <3>1. Tell([kind |-> "status", player |-> np.player, fields |-> remote[np.player]]) /\ UNCHANGED remote
      BY <1>2, <1>4, <2>3 DEF Answer
    <3>2. [kind |-> "status", player |-> np.player, fields |-> remote[np.player]] \in Packet
      BY <2>1, StatusFields, PacketsMade
    <3> QED
      BY <1>1, <3>1, <3>2, Told DEF WireInv, WireType, RemoteKnows
  <2>4. CASE np.kind = "action"
    <3>1. RemoteSets(np.player, [isPlaying |-> ~remote[np.player].isPlaying])
      BY <1>2, <1>4, <2>4 DEF Answer
    <3>2. (~remote[np.player].isPlaying) \in BOOLEAN
      OBVIOUS
    <3> QED
      BY <1>4, <2>1, <3>1, <3>2, <1>1, SetsKeeps DEF WireInv, WireType
  <2>5. CASE np.kind = "Stop"
    <3>1. RemoteSets(np.player, [isPlaying |-> FALSE])
      BY <1>2, <1>4, <2>5 DEF Answer
    <3> QED
      BY <1>4, <2>1, <3>1, <1>1, SetsKeeps DEF WireInv, WireType
  <2>6. CASE np.kind = "seek"
    <3>1. RemoteSets(np.player, [pos |-> 1 - remote[np.player].pos])
      BY <1>2, <1>4, <2>6 DEF Answer
    <3>2. 1 - remote[np.player].pos \in {0, 1}
      BY <2>1
    <3> QED
      BY <1>4, <2>1, <3>1, <3>2, <1>1, SetsKeeps DEF WireInv, WireType
  <2>7. CASE np.kind = "SetPosition"
    <3>1. RemoteSets(np.player, [pos |-> np.pos])
      BY <1>2, <1>4, <2>7 DEF Answer
    <3>2. np.pos \in {0, 1}
      BY <1>1, <2>7, RequestParts
    <3> QED
      BY <1>4, <2>1, <3>1, <3>2, <1>1, SetsKeeps DEF WireInv, WireType
  <2> QED
    BY <2>2, <2>3, <2>4, <2>5, <2>6, <2>7
<1> QED
  BY <1>3, <1>4


-----------------------------------------------------------------------------
(* What holds of plugin and page.                                          *)

Unlisted == page # "plugin" => shown = NoPlayers /\ connected = {}

Signalled ==
  page = "plugin" => /\ \A p \in pending.added : shown[p] = None
                     /\ \A p \in pending.removed : shown[p] # None

Rows == RowsHavePlayers /\ Unlisted /\ Signalled

LocalInv == LocalType /\ Rows /\ DeviceApiCurrent

IInv == LocalInv /\ WireInv

LEMMA NoneIsNoStatus == None \notin Status
BY PlayersAssumption

LEMMA NobodyKnown == /\ NoPlayers \in [Player -> Status \cup {None}]
                     /\ Known(NoPlayers) = {}
                     /\ \A p \in Player : NoPlayers[p] = None
BY DEF NoPlayers, Known

LEMMA QuietType == \A players : Quiet \in [added: SUBSET Known(players), removed: SUBSET (Player \ Known(players))]
BY DEF Quiet

(* With no signal under way the page shows what the plugin knows.          *)
LEMMA QuietRows ==
  ASSUME LocalInv, Emitted, page = "plugin"
  PROVE  \A p \in Player : shown[p] = m_players[p] /\ (p \in connected <=> m_players[p] # None)
BY DEF LocalInv, Rows, RowsHavePlayers, Emitted, Quiet

(* What makes the rows right once all signals are emitted.                 *)
LEMMA RowsMade ==
  ASSUME Emitted', (page = "plugin")' = (loaded /\ page # "closed")',
         page' # "plugin" => shown' = NoPlayers /\ connected' = {},
         page' = "plugin" => \A p \in Player :
           shown'[p] = m_players'[p] /\ (p \in connected' <=> m_players'[p] # None)
  PROVE  Rows'
<1>1. pending' = Quiet
  BY DEF Emitted
<1>2. \A p \in Player : shown'[p] # None => m_players'[p] # None
  BY NobodyKnown
<1>3. RowsHavePlayers'
  BY <1>1, <1>2 DEF RowsHavePlayers, Quiet
<1>4. Signalled'
  BY <1>1 DEF Signalled, Quiet
<1>5. Unlisted'
  BY DEF Unlisted
<1> QED
  BY <1>3, <1>4, <1>5 DEF Rows

(* The plugin is loaded or unloaded, or stays.                             *)
LEMMA Reloads ==
  ASSUME LocalInv, Emitted, NEW queued \in Seq(Request),
         NEW now \in BOOLEAN, now = loaded', Reloaded(loaded, now, queued), link' \in BOOLEAN, enabled' \in BOOLEAN,
         UNCHANGED <<pending, m_loadedPlugins, pageShows>>, changes' \in 0..MaxChanges
  PROVE  LocalInv' /\ toDevice' \in Seq(Request)
<1>1. loaded \in BOOLEAN /\ loaded' \in BOOLEAN
  BY DEF loaded
<1>2. Emitted'
  BY DEF Emitted
<1>3. page \in {"closed", "noPlugin", "plugin"} /\ notices \in Nat /\ connected \subseteq Player
      /\ shown \in [Player -> Status \cup {None}] /\ m_players \in [Player -> Status \cup {None}]
  BY DEF LocalInv, LocalType
<1>4. CASE loaded = loaded'
  <2>1. toDevice' = queued /\ UNCHANGED <<m_players, modelVars, notices>>
    BY <1>4 DEF Reloaded
  <2>2. LocalType'
    BY <2>1 DEF LocalInv, LocalType, modelVars
  <2>3. Rows'
    BY <1>4, <2>1 DEF LocalInv, Rows, RowsHavePlayers, Unlisted, Signalled, modelVars
  <2>4. DeviceApiCurrent'
    BY <1>4, <2>1 DEF LocalInv, DeviceApiCurrent, isPluginLoaded, modelVars
  <2> QED
    BY <2>1, <2>2, <2>3, <2>4 DEF LocalInv
<1>5. CASE ~loaded /\ loaded'
  <2>1. /\ m_players' = NoPlayers /\ toDevice' = Append(queued, [kind |-> "requestPlayerList"])
        /\ devicePluginsChanged(TRUE, NoPlayers)
        /\ notices' = IF page = "closed" THEN notices ELSE notices + 1
    BY <1>1, <1>5 DEF Reloaded
  <2>2. page # "plugin" /\ shown = NoPlayers /\ connected = {}
    BY <1>5 DEF LocalInv, Rows, RowsHavePlayers, Unlisted
  <2>3. CASE page = "closed"
    <3>1. UNCHANGED modelVars
      BY <2>1, <2>3 DEF devicePluginsChanged
    <3>2. Rows'
      BY <1>2, <2>2, <2>3, <3>1, RowsMade DEF modelVars
    <3>3. LocalType'
      BY <2>1, <2>3, <3>1, NobodyKnown, QuietType DEF LocalInv, LocalType, modelVars, Emitted
    <3>4. DeviceApiCurrent'
      BY <2>3, <3>1 DEF DeviceApiCurrent, modelVars
    <3> QED
      BY <2>1, <3>2, <3>3, <3>4, RequestsMade DEF LocalInv
  <2>4. CASE page = "noPlugin"
    <3>1. page' = "plugin" /\ shown' = [p \in Player |-> NoPlayers[p]] /\ connected' = {}
      BY <2>1, <2>4, NobodyKnown DEF devicePluginsChanged, setPlugin, data
    <3>2. shown' = NoPlayers
      BY <3>1 DEF NoPlayers
    <3>3. Rows'
      BY <1>2, <1>5, <2>1, <3>1, <3>2, NobodyKnown, RowsMade
    <3>4. LocalType'
      BY <2>1, <2>4, <3>1, <3>2, NobodyKnown, QuietType DEF LocalInv, LocalType, Emitted
    <3>5. DeviceApiCurrent'
      BY <1>3, <2>1, <2>4 DEF DeviceApiCurrent
    <3> QED
      BY <2>1, <3>3, <3>4, <3>5, RequestsMade DEF LocalInv
  <2> QED
    BY <1>3, <2>2, <2>3, <2>4
<1>6. CASE loaded /\ ~loaded'
  <2>1. /\ m_players' = NoPlayers /\ toDevice' = queued
        /\ IF page = "plugin" THEN pluginDestroyed ELSE devicePluginsChanged(FALSE, NoPlayers)
        /\ notices' = IF page = "closed" THEN notices ELSE notices + 1
    BY <1>1, <1>6 DEF Reloaded
  <2>2. (page = "plugin") = (page # "closed")
    BY <1>6 DEF LocalInv, Rows, RowsHavePlayers
  <2>3. CASE page = "closed"
    <3>1. UNCHANGED modelVars
      BY <2>1, <2>3 DEF devicePluginsChanged
    <3>2. shown = NoPlayers /\ connected = {}
      BY <2>3 DEF LocalInv, Rows, Unlisted
    <3>3. Rows'
      BY <1>2, <2>3, <3>1, <3>2, RowsMade DEF modelVars
    <3>4. LocalType'
      BY <2>1, <2>3, <3>1, NobodyKnown, QuietType DEF LocalInv, LocalType, modelVars, Emitted
    <3>5. DeviceApiCurrent'
      BY <2>3, <3>1 DEF DeviceApiCurrent, modelVars
    <3> QED
      BY <2>1, <3>3, <3>4, <3>5 DEF LocalInv
  <2>4. CASE page = "plugin"
    <3>1. page' = "noPlugin" /\ shown' = NoPlayers /\ connected' = {}
      BY <2>1, <2>4 DEF pluginDestroyed, setPlugin
    <3>2. Rows'
      BY <1>2, <1>6, <3>1, RowsMade
    <3>3. LocalType'
      BY <2>1, <2>4, <3>1, NobodyKnown, QuietType DEF LocalInv, LocalType, Emitted
    <3>4. DeviceApiCurrent'
      BY <1>3, <2>1, <2>4 DEF DeviceApiCurrent
    <3> QED
      BY <2>1, <3>2, <3>3, <3>4 DEF LocalInv
  <2> QED
    BY <1>3, <2>2, <2>3, <2>4
<1> QED
  BY <1>1, <1>4, <1>5, <1>6


(* A player that the plugin knows changes, and the row with it.            *)
LEMMA Updates ==
  ASSUME LocalInv, Emitted, NEW p \in Player, m_players[p] # None, NEW new \in Status,
         m_players' = [m_players EXCEPT ![p] = new], playerUpdated(p, m_players'),
         UNCHANGED <<link, enabled, pending, apiVars>>, changes' \in 0..MaxChanges
  PROVE  LocalInv'
<1>1. Emitted' /\ new # None
  BY NoneIsNoStatus DEF Emitted
<1>2. Known(m_players') = Known(m_players)
  BY <1>1 DEF Known, LocalInv, LocalType
<1>3. page' = page /\ connected' = connected
  BY DEF playerUpdated, modelVars
<1>4. m_players' \in [Player -> Status \cup {None}]
  BY DEF LocalInv, LocalType
<1>5. CASE page = "plugin"
  <2>1. \A q \in Player : shown[q] = m_players[q] /\ (q \in connected <=> m_players[q] # None)
    BY <1>5, QuietRows
  <2>2. shown' = [shown EXCEPT ![p] = new]
    BY <2>1 DEF playerUpdated, data, LocalInv, LocalType
  <2>3. \A q \in Player : shown'[q] = m_players'[q] /\ (q \in connected' <=> m_players'[q] # None)
    BY <1>1, <1>3, <2>1, <2>2 DEF LocalInv, LocalType
  <2>4. Rows'
    BY <1>1, <1>3, <1>5, <2>3, RowsMade DEF LocalInv, Rows, RowsHavePlayers, loaded
  <2>5. shown' \in [Player -> Status \cup {None}]
    BY <2>2 DEF LocalInv, LocalType
  <2>6. LocalType'
    BY <1>2, <1>3, <1>4, <2>5 DEF LocalInv, LocalType, apiVars
  <2>7. DeviceApiCurrent'
    BY <1>3 DEF LocalInv, DeviceApiCurrent, apiVars, isPluginLoaded, loaded
  <2> QED
    BY <2>4, <2>6, <2>7 DEF LocalInv
<1>6. CASE page # "plugin"
  <2>1. shown = NoPlayers /\ connected = {}
    BY <1>6 DEF LocalInv, Rows, Unlisted
  <2>2. UNCHANGED modelVars
    BY <2>1 DEF playerUpdated
  <2>3. Rows'
    BY <1>1, <1>3, <1>6, <2>1, <2>2, RowsMade DEF LocalInv, Rows, RowsHavePlayers, loaded, modelVars
  <2>4. LocalType'
    BY <1>2, <1>4, <2>2 DEF LocalInv, LocalType, apiVars, modelVars
  <2>5. DeviceApiCurrent'
    BY <2>2 DEF LocalInv, DeviceApiCurrent, apiVars, modelVars, isPluginLoaded, loaded
  <2> QED
    BY <2>3, <2>4, <2>5 DEF LocalInv
<1> QED
  BY <1>5, <1>6

(* The list of the device makes and deletes players; no row knows yet.     *)
LEMMA Lists ==
  ASSUME LocalInv, Emitted, loaded, NEW np \in Packet, np.kind = "list", receiveList(np),
         UNCHANGED <<link, enabled, apiVars, changes>>
  PROVE  LocalInv'
<1> DEFINE added == np.players \ Known(m_players)
           removed == Known(m_players) \ np.players
<1>1. np.players \subseteq Player
  BY PacketParts
<1>2. m_players' = [p \in Player |-> IF p \in added THEN MprisPlayer
                                     ELSE IF p \in removed THEN None ELSE m_players[p]]
  BY DEF receiveList
<1>3. pending' = [added |-> added, removed |-> removed] /\ UNCHANGED modelVars
  BY DEF receiveList
<1>4. MprisPlayer # None /\ MprisPlayer \in Status
  BY NewPlayer, NoneIsNoStatus
<1>5. m_players' \in [Player -> Status \cup {None}]
  BY <1>2, <1>4 DEF LocalInv, LocalType
<1>6. added \subseteq Known(m_players') /\ removed \subseteq Player \ Known(m_players')
  BY <1>1, <1>2, <1>4 DEF Known
<1>7. LocalType'
  <2>1. pending' \in [added: SUBSET Known(m_players'), removed: SUBSET (Player \ Known(m_players'))]
    BY <1>3, <1>6
  <2> QED
    BY <1>3, <1>5, <2>1 DEF LocalInv, LocalType, apiVars, modelVars
<1>8. DeviceApiCurrent'
  BY <1>3 DEF LocalInv, DeviceApiCurrent, apiVars, modelVars, isPluginLoaded, loaded
<1>9. Rows'
  <2>1. CASE page = "plugin"
    <3>1. \A p \in Player : shown[p] = m_players[p] /\ (p \in connected <=> m_players[p] # None)
      BY <2>1, QuietRows
    <3>2. \A p \in Player \ (added \cup removed) :
            shown'[p] = m_players'[p] /\ (p \in connected' <=> m_players'[p] # None)
      BY <1>2, <1>3, <3>1 DEF modelVars
    <3>3. \A p \in Player : shown'[p] # None => m_players'[p] # None \/ p \in removed
      BY <1>2, <1>3, <1>4, <3>1 DEF modelVars
    <3>4. RowsHavePlayers'
      BY <1>3, <3>2, <3>3 DEF LocalInv, Rows, RowsHavePlayers, loaded, modelVars
    <3>5. Signalled'
      BY <1>1, <1>3, <3>1 DEF Signalled, Known, modelVars
    <3> QED
      BY <1>3, <2>1, <3>4, <3>5 DEF Rows, Unlisted, modelVars
  <2>2. CASE page # "plugin"
    <3>1. shown' = NoPlayers /\ connected' = {} /\ page' # "plugin"
      BY <1>3, <2>2 DEF LocalInv, Rows, Unlisted, modelVars
    <3>2. RowsHavePlayers'
      BY <1>3, <2>2, <3>1, NobodyKnown DEF LocalInv, Rows, RowsHavePlayers, loaded, modelVars
    <3> QED
      BY <3>1, <3>2 DEF Rows, Unlisted, Signalled
  <2> QED
    BY <2>1, <2>2
<1> QED
  BY <1>7, <1>8, <1>9 DEF LocalInv

LEMMA ReceiveKeeps ==
  ASSUME IInv, receivePacket
  PROVE  IInv'
<1> DEFINE np == Head(fromDevice)
<1>1. Emitted /\ UNCHANGED <<link, enabled, remote, apiVars, changes>>
  BY DEF receivePacket
<1>2. np \in Packet /\ fromDevice' \in Seq(Packet)
  BY DEF receivePacket, IInv, WireInv, WireType
<1> HIDE DEF np
<1>3. np.kind \in {"list", "status"}
  BY <1>2, PacketParts
<1>4. toDevice \in Seq(Request) /\ changes \in 0..MaxChanges
  BY DEF IInv, LocalInv, LocalType, WireInv, WireType
<1>5. CASE ~loaded
  <2>1. UNCHANGED <<pluginVars, toDevice, modelVars>>
    BY <1>5 DEF receivePacket
  <2> QED
    BY <1>1, <1>2, <2>1 DEF IInv, LocalInv, LocalType, Rows, RowsHavePlayers, Unlisted, Signalled,
      DeviceApiCurrent, WireInv, WireType, RemoteKnows, apiVars, pluginVars, modelVars, isPluginLoaded,
      loaded
<1>6. CASE loaded /\ np.kind = "status"
  <2>1. receiveStatus(np)
    BY <1>6 DEF receivePacket, np
  <2>2. np.player \in Player /\ np.fields \in Fields
    BY <1>2, <1>6, PacketParts
  <2>3. toDevice' = toDevice /\ pending' = pending
    BY <2>1 DEF receiveStatus
  <2>4. WireInv'
    BY <1>1, <1>2, <2>3 DEF IInv, WireInv, WireType, RemoteKnows
  <2>5. CASE m_players[np.player] = None
    <3>1. UNCHANGED <<m_players, modelVars>>
      BY <2>1, <2>5 DEF receiveStatus
    <3> QED
      BY <1>1, <2>3, <2>4, <3>1 DEF IInv, LocalInv, LocalType, Rows, RowsHavePlayers, Unlisted, Signalled,
        DeviceApiCurrent, apiVars, modelVars, isPluginLoaded, loaded
  <2>6. CASE m_players[np.player] # None
    <3>1. m_players[np.player] \in Status
      BY <2>2, <2>6 DEF IInv, LocalInv, LocalType
    <3>2. Received(np.player, np.fields) \in Status
      BY <2>2, <3>1, ReceivedIsStatus
    <3>3. m_players' = [m_players EXCEPT ![np.player] = Received(np.player, np.fields)]
          /\ playerUpdated(np.player, m_players')
      BY <2>1, <2>6 DEF receiveStatus
    <3>4. LocalInv'
      BY <1>1, <1>4, <2>2, <2>3, <2>6, <3>2, <3>3, Updates DEF IInv
    <3> QED
      BY <2>4, <3>4 DEF IInv
  <2> QED
    BY <2>5, <2>6
<1>7. CASE loaded /\ np.kind = "list"
  <2>1. receiveList(np)
    BY <1>7 DEF receivePacket, np
  <2>2. LocalInv'
    BY <1>1, <1>2, <1>7, <2>1, Lists DEF IInv
  <2>3. toDevice' \in Seq(Request)
    <3> DEFINE added == np.players \ Known(m_players)
    <3>1. added \in SUBSET Player /\ requestPlayerStatus(added)
      BY <1>2, <1>7, <2>1, PacketParts DEF receiveList
    <3> HIDE DEF added
    <3> QED
      BY <1>4, <3>1, RequestsStay
  <2> QED
    BY <1>1, <1>2, <2>2, <2>3 DEF IInv, WireInv, WireType, RemoteKnows
<1> QED
  BY <1>3, <1>5, <1>6, <1>7


(* A player comes to the page or leaves it; the rest stays to be emitted.  *)
LEMMA EmitKeeps ==
  ASSUME LocalInv, EmitSignal
  PROVE  LocalInv'
<1> DEFINE Rest == UNCHANGED <<link, enabled, m_players, apiVars, changes>> /\ page' = page
<1>1. LocalType /\ pending.added \subseteq Known(m_players) /\ pending.removed \subseteq Player \ Known(m_players)
      /\ pending = [added |-> pending.added, removed |-> pending.removed]
  BY DEF LocalInv, LocalType
<1>2. ASSUME NEW p \in pending.added, pending' = [pending EXCEPT !.added = @ \ {p}], playerAdded(p), Rest
      PROVE  LocalInv'
  <2>1. p \in Player /\ m_players[p] # None /\ p \notin pending.removed
    BY <1>1, <1>2 DEF Known
  <2>2. pending'.added = pending.added \ {p} /\ pending'.removed = pending.removed
        /\ pending' = [added |-> pending.added \ {p}, removed |-> pending.removed]
    BY <1>1, <1>2
  <2>3. CASE page # "plugin"
    <3>1. UNCHANGED modelVars
      BY <1>2, <2>3 DEF playerAdded
    <3>2. LocalType'
      BY <1>1, <1>2, <2>2, <3>1 DEF LocalType, Known, apiVars, modelVars
    <3> QED
      BY <1>2, <2>2, <2>3, <3>1, <3>2, NobodyKnown DEF LocalInv, Rows, RowsHavePlayers, Unlisted,
        Signalled, DeviceApiCurrent, loaded, isPluginLoaded, apiVars, modelVars
  <2>4. CASE page = "plugin"
    <3>1. shown[p] = None
      BY <1>2, <2>4 DEF LocalInv, Rows, Signalled
    <3>2. shown' = [shown EXCEPT ![p] = m_players[p]] /\ connected' = connected \cup {p}
      BY <1>2, <2>4, <3>1 DEF playerAdded, connectPlayer, data
    <3>3. LocalType'
      BY <1>1, <1>2, <2>1, <2>2, <3>2 DEF LocalType, Known, apiVars
    <3>4. RowsHavePlayers'
      BY <1>1, <1>2, <2>1, <2>2, <2>4, <3>2 DEF LocalInv, LocalType, Rows, RowsHavePlayers, loaded
    <3>5. Signalled'
      BY <1>1, <1>2, <2>1, <2>2, <2>4, <3>2, NoneIsNoStatus DEF LocalInv, LocalType, Rows, Signalled, Known
    <3>6. DeviceApiCurrent'
      BY <1>2 DEF LocalInv, DeviceApiCurrent, loaded, isPluginLoaded, apiVars
    <3> QED
      BY <1>2, <2>4, <3>3, <3>4, <3>5, <3>6 DEF LocalInv, Rows, Unlisted
  <2> QED
    BY <2>3, <2>4
<1>3. ASSUME NEW p \in pending.removed, pending.added = {}, pending' = [pending EXCEPT !.removed = @ \ {p}],
             playerRemoved(p), Rest
      PROVE  LocalInv'
  <2>1. p \in Player /\ m_players[p] = None
    BY <1>1, <1>3 DEF Known
  <2>2. pending'.added = {} /\ pending'.removed = pending.removed \ {p}
        /\ pending' = [added |-> {}, removed |-> pending.removed \ {p}]
    BY <1>1, <1>3
  <2>3. CASE page # "plugin"
    <3>1. UNCHANGED modelVars
      BY <1>3, <2>3 DEF playerRemoved
    <3>2. LocalType'
      BY <1>1, <1>3, <2>2, <3>1 DEF LocalType, Known, apiVars, modelVars
    <3> QED
      BY <1>3, <2>2, <2>3, <3>1, <3>2, NobodyKnown DEF LocalInv, Rows, RowsHavePlayers, Unlisted,
        Signalled, DeviceApiCurrent, loaded, isPluginLoaded, apiVars, modelVars
  <2>4. CASE page = "plugin"
    <3>1. shown[p] # None
      BY <1>3, <2>4 DEF LocalInv, Rows, Signalled
    <3>2. shown' = [shown EXCEPT ![p] = None] /\ connected' = connected \ {p}
      BY <1>3, <2>4, <3>1 DEF playerRemoved
    <3>3. LocalType'
      BY <1>1, <1>3, <2>1, <2>2, <3>2 DEF LocalType, Known, apiVars
    <3>4. RowsHavePlayers'
      BY <1>1, <1>3, <2>1, <2>2, <2>4, <3>2 DEF LocalInv, LocalType, Rows, RowsHavePlayers, loaded
    <3>5. Signalled'
      BY <1>1, <1>3, <2>1, <2>2, <2>4, <3>2 DEF LocalInv, LocalType, Rows, Signalled
    <3>6. DeviceApiCurrent'
      BY <1>3 DEF LocalInv, DeviceApiCurrent, loaded, isPluginLoaded, apiVars
    <3> QED
      BY <1>3, <2>4, <3>3, <3>4, <3>5, <3>6 DEF LocalInv, Rows, Unlisted
  <2> QED
    BY <2>3, <2>4
<1>4. Rest
  BY DEF EmitSignal, playerAdded, connectPlayer, playerRemoved, modelVars
<1> QED
  BY <1>2, <1>3, <1>4 DEF EmitSignal

LEMMA CommandKeeps ==
  ASSUME IInv, NEW p \in Player, Command(p)
  PROVE  IInv'
<1>1. Emitted /\ changes' \in 0..MaxChanges /\ shown[p] # None
      /\ UNCHANGED <<link, enabled, pending, remote, fromDevice, apiVars>>
  BY PlayersAssumption DEF Command, Change, IInv, LocalInv, LocalType
<1>2. toDevice \in Seq(Request)
  BY DEF IInv, WireInv, WireType
<1>3. ASSUME NEW method \in {"action", "Stop", "seek"}, sendCommand(p, method)
      PROVE  IInv'
  <2>1. UNCHANGED <<m_players, modelVars>>
    BY <1>3 DEF sendCommand
  <2>2. sendPacket([kind |-> method, player |-> p]) /\ [kind |-> method, player |-> p] \in Request
    BY <1>3, RequestsMade DEF sendCommand
  <2>3. toDevice' \in Seq(Request)
    BY <1>2, <2>2, Sent
  <2> QED
    BY <1>1, <2>1, <2>3 DEF IInv, LocalInv, LocalType, Rows, RowsHavePlayers, Unlisted, Signalled,
      DeviceApiCurrent, WireInv, WireType, RemoteKnows, apiVars, modelVars, isPluginLoaded, loaded
<1>4. ASSUME NEW pos \in {0, 1}, setPosition(p, pos)
      PROVE  IInv'
  <2>1. toDevice' \in Seq(Request)
    <3>1. /\ sendPacket([kind |-> "SetPosition", player |-> p, pos |-> pos])
          /\ [kind |-> "SetPosition", player |-> p, pos |-> pos] \in Request
      BY <1>4, RequestsMade DEF setPosition
    <3> QED
      BY <1>2, <3>1, Sent
  <2>2. WireInv'
    BY <1>1, <2>1 DEF IInv, WireInv, WireType, RemoteKnows
  <2>3. m_players[p] \in Status
    BY <1>1 DEF IInv, LocalInv, LocalType, Rows, RowsHavePlayers, Emitted, Quiet
  <2>4. [m_players[p] EXCEPT !.pos = pos] \in Status
    BY <2>3 DEF Status
  <2>5. m_players' = [m_players EXCEPT ![p] = [m_players[p] EXCEPT !.pos = pos]]
        /\ playerUpdated(p, m_players')
    BY <1>4 DEF setPosition
  <2>6. m_players[p] # None
    BY <2>3, NoneIsNoStatus
  <2>7. LocalInv'
    BY <1>1, <2>4, <2>5, <2>6, Updates DEF IInv
  <2> QED
    BY <2>2, <2>7 DEF IInv
<1> QED
  BY <1>3, <1>4 DEF Command

LEMMA PageKeeps ==
  ASSUME IInv, OpenPage \/ ClosePage \/ pluginsChanged
  PROVE  IInv'
<1>1. Emitted /\ Emitted' /\ UNCHANGED <<link, enabled, pluginVars, wireVars>> /\ changes' \in 0..MaxChanges
  BY PlayersAssumption DEF OpenPage, ClosePage, pluginsChanged, Change, IInv, LocalInv, LocalType, Emitted,
    pluginVars
<1>2. WireInv'
  BY <1>1 DEF IInv, WireInv, WireType, RemoteKnows, wireVars
<1>3. loaded \in BOOLEAN /\ loaded' = loaded
  BY <1>1 DEF loaded
<1>4. CASE OpenPage
  <2>1. CASE loaded
    <3>1. page' = "plugin" /\ shown' = [q \in Player |-> m_players[q]] /\ connected' = Known(m_players)
      BY <1>4, <2>1 DEF OpenPage, setPlugin, data
    <3>2. Rows'
      BY <1>1, <1>3, <2>1, <3>1, RowsMade DEF Known, pluginVars
    <3>3. LocalType'
      BY <1>1, <1>3, <1>4, <3>1 DEF OpenPage, isPluginLoaded, IInv, LocalInv, LocalType, pluginVars, Known
    <3>4. DeviceApiCurrent'
      BY <1>3, <1>4, <2>1 DEF OpenPage, isPluginLoaded, DeviceApiCurrent
    <3> QED
      BY <1>2, <3>2, <3>3, <3>4 DEF IInv, LocalInv
  <2>2. CASE ~loaded
    <3>1. page' = "noPlugin" /\ shown' = NoPlayers /\ connected' = {}
      BY <1>4, <2>2 DEF OpenPage, setPlugin
    <3>2. Rows'
      BY <1>1, <1>3, <2>2, <3>1, RowsMade
    <3>3. LocalType'
      BY <1>1, <1>3, <1>4, <3>1, NobodyKnown DEF OpenPage, isPluginLoaded, IInv, LocalInv, LocalType,
        pluginVars
    <3>4. DeviceApiCurrent'
      BY <1>3, <1>4, <2>2 DEF OpenPage, isPluginLoaded, DeviceApiCurrent
    <3> QED
      BY <1>2, <3>2, <3>3, <3>4 DEF IInv, LocalInv
  <2> QED
    BY <2>1, <2>2
<1>5. CASE ClosePage
  <2>1. page' = "closed" /\ shown' = NoPlayers /\ connected' = {}
    BY <1>5 DEF ClosePage
  <2>2. Rows'
    BY <1>1, <2>1, RowsMade
  <2>3. LocalType'
    BY <1>1, <1>5, <2>1, NobodyKnown DEF ClosePage, IInv, LocalInv, LocalType, pluginVars
  <2> QED
    BY <1>2, <2>1, <2>2, <2>3 DEF IInv, LocalInv, DeviceApiCurrent
<1>6. CASE pluginsChanged
  <2>1. UNCHANGED modelVars /\ notices' \in Nat /\ m_loadedPlugins' = loaded /\ pageShows' = loaded
        /\ changes' = changes
    BY <1>6 DEF pluginsChanged, isPluginLoaded, IInv, LocalInv, LocalType
  <2>2. LocalType'
    BY <1>1, <1>3, <2>1 DEF IInv, LocalInv, LocalType, pluginVars, modelVars
  <2>3. Rows'
    BY <1>1, <2>1 DEF IInv, LocalInv, Rows, RowsHavePlayers, Unlisted, Signalled, loaded, pluginVars, modelVars
  <2>4. m_loadedPlugins' # None
    BY <1>3, <2>1, PlayersAssumption
  <2>5. DeviceApiCurrent'
    BY <1>3, <2>1, <2>4 DEF DeviceApiCurrent, isPluginLoaded
  <2> QED
    BY <1>2, <2>2, <2>3, <2>5 DEF IInv, LocalInv
<1> QED
  BY <1>4, <1>5, <1>6

-----------------------------------------------------------------------------
(* What the plugin knows of the players and what they are.  The packets    *)
(* under way make up for the difference, or the device is still asked: in  *)
(* the queue of packets only the last that says something counts.          *)

Asked(kind, p) == \E i \in DOMAIN toDevice : toDevice[i].kind = kind /\ toDevice[i].player = p
ListAsked == \E i \in DOMAIN toDevice : toDevice[i].kind = "requestPlayerList"

IsList(i) == fromDevice[i].kind = "list"
IsUpdate(i, p, f) ==
  fromDevice[i].kind = "status" /\ fromDevice[i].player = p /\ f \in DOMAIN fromDevice[i].fields

(* The last list is right.  With none under way the plugin knows of no     *)
(* player that has gone, and all that there are unless it still asks.      *)
ListRight ==
  \/ /\ \A i \in DOMAIN fromDevice : ~IsList(i)
     /\ loaded => /\ Known(m_players) \subseteq Known(remote)
                  /\ ListAsked \/ Known(remote) \subseteq Known(m_players)
  \/ \E i \in DOMAIN fromDevice :
       /\ IsList(i) /\ fromDevice[i].players = Known(remote)
       /\ \A j \in DOMAIN fromDevice : j > i => ~IsList(j)

(* The plugin knows p and is told of no list without it.                   *)
Lasts(p) == m_players[p] # None /\ \A i \in DOMAIN fromDevice : IsList(i) => p \in fromDevice[i].players

(* The last value under way of a field is right, or else the one known; a  *)
(* position may be one that the user has set and the device not yet heard. *)
FieldRight(p, f) ==
  \/ /\ \A i \in DOMAIN fromDevice : ~IsUpdate(i, p, f)
     /\ m_players[p][f] = remote[p][f] \/ (f = "pos" /\ Asked("SetPosition", p))
  \/ \E i \in DOMAIN fromDevice :
       /\ IsUpdate(i, p, f) /\ fromDevice[i].fields[f] = remote[p][f]
       /\ \A j \in DOMAIN fromDevice : j > i => ~IsUpdate(j, p, f)

StatusRight(p) == \A f \in Field : (f = "pos" => p \notin Spotify) => FieldRight(p, f)

FollowInv ==
  /\ ~link => fromDevice = <<>>
  /\ link => ListRight
  /\ loaded => \A p \in Player : remote[p] # None /\ Lasts(p) => Asked("status", p) \/ StatusRight(p)
  /\ \A p \in Spotify : m_players[p] # None => m_players[p].pos = -1

(* A player that is not there any more is not to last.                     *)
LEMMA GoneDoesNotLast ==
  ASSUME FollowInv, loaded, NEW p \in Player, remote[p] = None
  PROVE  ~Lasts(p)
BY DEF FollowInv, ListRight, Lasts, Known, loaded

(* The device has the request at the head of the queue answered ...        *)
LEMMA AnswerAsked ==
  ASSUME WireType, toDevice # <<>>, toDevice' = Tail(toDevice)
  PROVE  /\ \A kind \in {"status", "SetPosition"}, p \in Player :
              Asked(kind, p) => \/ Asked(kind, p)'
                                \/ Head(toDevice).kind = kind /\ Head(toDevice).player = p
         /\ ListAsked => ListAsked' \/ Head(toDevice).kind = "requestPlayerList"
<1>1. /\ Len(toDevice) \in Nat \ {0} /\ DOMAIN toDevice = 1..Len(toDevice)
      /\ DOMAIN toDevice' = 1..Len(toDevice) - 1 /\ Head(toDevice) = toDevice[1]
      /\ \A i \in 1..Len(toDevice) - 1 : toDevice'[i] = toDevice[i + 1]
  BY DEF WireType
<1>2. ASSUME NEW i \in DOMAIN toDevice, i # 1
      PROVE  i - 1 \in DOMAIN toDevice' /\ toDevice'[i - 1] = toDevice[i]
  BY <1>1, <1>2
<1>. QED BY <1>1, <1>2 DEF Asked, ListAsked

(* ... and the plugin appends what it asks.                                *)
LEMMA AppendAsked ==
  ASSUME WireType, NEW s \in Seq(Request), toDevice' = toDevice \o s
  PROVE  /\ \A kind \in {"status", "SetPosition"}, p \in Player : Asked(kind, p) => Asked(kind, p)'
         /\ ListAsked => ListAsked'
         /\ \A i \in DOMAIN s : \E j \in DOMAIN toDevice' : toDevice'[j] = s[i]
<1>1. /\ Len(toDevice) \in Nat /\ Len(s) \in Nat
      /\ DOMAIN toDevice = 1..Len(toDevice) /\ DOMAIN s = 1..Len(s)
      /\ DOMAIN toDevice' = 1..Len(toDevice) + Len(s)
      /\ \A i \in 1..Len(toDevice) : toDevice'[i] = toDevice[i]
      /\ \A i \in 1..Len(s) : toDevice'[Len(toDevice) + i] = s[i]
  BY DEF WireType
<1>2. DOMAIN toDevice \subseteq DOMAIN toDevice'
  BY <1>1
<1>3. \A i \in DOMAIN s : Len(toDevice) + i \in DOMAIN toDevice'
  BY <1>1
<1>. QED BY <1>1, <1>2, <1>3 DEF Asked, ListAsked

LEMMA SentAsked ==
  ASSUME WireType, NEW np \in Request, NEW queued \in {toDevice, <<>>}, toDevice' = Append(queued, np)
  PROVE  /\ queued = toDevice =>
              /\ \A kind \in {"status", "SetPosition"}, p \in Player : Asked(kind, p) => Asked(kind, p)'
              /\ ListAsked => ListAsked'
         /\ \E j \in DOMAIN toDevice' : toDevice'[j] = np
<1>1. queued \in Seq(Request)
  <2>1. <<>> \in Seq(Request) /\ toDevice \in Seq(Request)
    BY DEF WireType
  <2>. QED BY <2>1
<1>2. /\ Len(queued) \in Nat /\ DOMAIN queued = 1..Len(queued)
      /\ DOMAIN toDevice' = 1..Len(queued) + 1 /\ toDevice'[Len(queued) + 1] = np
      /\ \A i \in 1..Len(queued) : toDevice'[i] = queued[i]
  BY <1>1
<1>3. DOMAIN queued \subseteq DOMAIN toDevice' /\ Len(queued) + 1 \in DOMAIN toDevice'
  BY <1>2
<1>. QED BY <1>2, <1>3 DEF Asked, ListAsked

(* The queue of packets grows behind and is read in front.                 *)
LEMMA Grown ==
  ASSUME WireType, NEW np \in Packet, fromDevice' = Append(fromDevice, np)
  PROVE  /\ Len(fromDevice) \in Nat /\ DOMAIN fromDevice = 1..Len(fromDevice)
         /\ DOMAIN fromDevice' = 1..Len(fromDevice) + 1 /\ fromDevice'[Len(fromDevice) + 1] = np
         /\ \A i \in 1..Len(fromDevice) : fromDevice'[i] = fromDevice[i]
BY DEF WireType

LEMMA Shrunk ==
  ASSUME WireType, fromDevice # <<>>, fromDevice' = Tail(fromDevice)
  PROVE  /\ Len(fromDevice) \in Nat \ {0} /\ DOMAIN fromDevice = 1..Len(fromDevice)
         /\ DOMAIN fromDevice' = 1..Len(fromDevice) - 1 /\ Head(fromDevice) = fromDevice[1]
         /\ \A i \in 1..Len(fromDevice) - 1 : fromDevice'[i] = fromDevice[i + 1]
BY DEF WireType

(* The device sends a list: a player that is new was not to last.          *)
LEMMA ListTold ==
  ASSUME IInv, FollowInv, link, UNCHANGED <<link, enabled, m_players>>, Tell(List(remote')),
         \A p \in Player : remote'[p] # None => remote[p] = None \/ remote'[p] = remote[p],
         \A kind \in {"status", "SetPosition"}, p \in Player :
           remote'[p] # None /\ Asked(kind, p) => Asked(kind, p)'
  PROVE  FollowInv'
<1>. DEFINE np == List(remote')
<1>0. PICK n \in Nat : n = Len(fromDevice)
  BY DEF IInv, WireInv, WireType
<1>1. /\ n \in Nat /\ DOMAIN fromDevice = 1..n /\ DOMAIN fromDevice' = 1..n + 1
      /\ fromDevice'[n + 1] = np /\ \A i \in 1..n : fromDevice'[i] = fromDevice[i]
  <2>1. WireType /\ np \in Packet /\ fromDevice' = Append(fromDevice, np)
    BY ListIsPacket DEF IInv, WireInv, Tell
  <2>. QED BY <1>0, <2>1, Grown
<1>2. np.kind = "list" /\ np.players = Known(remote')
  BY DEF List
<1>. HIDE DEF np
<1>3. ListRight'
  <2>1. n + 1 \in DOMAIN fromDevice' /\ \A j \in DOMAIN fromDevice' : ~(j > n + 1)
    BY <1>1
  <2>. QED BY <1>1, <1>2, <2>1 DEF ListRight, IsList
<1>4. ASSUME NEW p \in Player, loaded, remote'[p] # None, Lasts(p)'
      PROVE  Asked("status", p)' \/ StatusRight(p)'
  <2>1. Lasts(p)
    BY <1>1, <1>4 DEF Lasts, IsList
  <2>2. remote[p] # None /\ remote'[p] = remote[p]
    BY <1>4, <2>1, GoneDoesNotLast
  <2>3. CASE Asked("status", p)
    BY <1>4, <2>3
  <2>4. ASSUME NEW f \in Field, FieldRight(p, f)
        PROVE  FieldRight(p, f)'
    <3>1. \A i \in 1..n + 1 : IsUpdate(i, p, f)' <=> i \in 1..n /\ IsUpdate(i, p, f)
      <4>1. ASSUME NEW i \in 1..n PROVE IsUpdate(i, p, f)' <=> IsUpdate(i, p, f)
        BY <1>1 DEF IsUpdate
      <4>2. ~IsUpdate(n + 1, p, f)'
        BY <1>1, <1>2 DEF IsUpdate
      <4>3. \A i \in 1..n + 1 : i \in 1..n \/ i = n + 1
        BY <1>1
      <4>. QED BY <1>1, <4>1, <4>2, <4>3
    <3>2. CASE \A i \in DOMAIN fromDevice : ~IsUpdate(i, p, f)
      <4>1. \A i \in DOMAIN fromDevice' : ~IsUpdate(i, p, f)'
        BY <1>1, <3>1, <3>2
      <4>2. m_players[p][f] = remote[p][f] \/ (f = "pos" /\ Asked("SetPosition", p))
        BY <2>4, <3>2 DEF FieldRight
      <4>. QED BY <1>4, <2>2, <4>1, <4>2 DEF FieldRight
    <3>3. ASSUME NEW i \in DOMAIN fromDevice, IsUpdate(i, p, f), fromDevice[i].fields[f] = remote[p][f],
                 \A j \in DOMAIN fromDevice : j > i => ~IsUpdate(j, p, f)
          PROVE  FieldRight(p, f)'
      <4>1. i \in DOMAIN fromDevice' /\ fromDevice'[i] = fromDevice[i] /\ IsUpdate(i, p, f)'
        BY <1>1, <3>1, <3>3
      <4>2. \A j \in DOMAIN fromDevice' : j > i => ~IsUpdate(j, p, f)'
        BY <1>1, <3>1, <3>3
      <4>. QED BY <2>2, <3>3, <4>1, <4>2 DEF FieldRight
    <3>. QED BY <2>4, <3>2, <3>3 DEF FieldRight
  <2>5. CASE StatusRight(p)
    BY <2>4, <2>5 DEF StatusRight
  <2>. QED BY <1>4, <2>1, <2>2, <2>3, <2>5 DEF FollowInv
<1>5. loaded' = loaded
  BY DEF loaded
<1>. QED BY <1>3, <1>4, <1>5 DEF FollowInv

(* The device tells fields of q, as they are.                              *)
LEMMA StatusTold ==
  ASSUME IInv, FollowInv, link, UNCHANGED <<link, enabled, m_players>>,
         NEW q \in Player, NEW g \in Fields, remote[q] # None, remote'[q] # None,
         Tell([kind |-> "status", player |-> q, fields |-> g]),
         \A p \in Player \ {q} : remote'[p] = remote[p],
         \A f \in Field : remote'[q][f] = IF f \in DOMAIN g THEN g[f] ELSE remote[q][f],
         \A p \in Player : Asked("status", p) => Asked("status", p)' \/ (p = q /\ DOMAIN g = Field),
         \A p \in Player : Asked("SetPosition", p) => Asked("SetPosition", p)' \/ (p = q /\ "pos" \in DOMAIN g),
         ListAsked => ListAsked'
  PROVE  FollowInv'
<1>. DEFINE np == [kind |-> "status", player |-> q, fields |-> g]
<1>0. PICK n \in Nat : n = Len(fromDevice)
  BY DEF IInv, WireInv, WireType
<1>1. /\ n \in Nat /\ DOMAIN fromDevice = 1..n /\ DOMAIN fromDevice' = 1..n + 1
      /\ fromDevice'[n + 1] = np /\ \A i \in 1..n : fromDevice'[i] = fromDevice[i]
  <2>1. WireType /\ np \in Packet /\ fromDevice' = Append(fromDevice, np)
    BY PacketsMade DEF IInv, WireInv, Tell
  <2>. QED BY <1>0, <2>1, Grown
<1>2. np.kind = "status" /\ np.player = q /\ np.fields = g
  OBVIOUS
<1>. HIDE DEF np
<1>3. \A i \in 1..n + 1 : i \in 1..n \/ i = n + 1
  BY <1>1
<1>4. \A i \in 1..n + 1 : IsList(i)' <=> i \in 1..n /\ IsList(i)
  BY <1>1, <1>2, <1>3 DEF IsList
<1>5. Known(remote') = Known(remote) /\ loaded' = loaded
  BY DEF Known, loaded
<1>6. ListRight'
  <2>1. CASE \A i \in DOMAIN fromDevice : ~IsList(i)
    <3>1. \A i \in DOMAIN fromDevice' : ~IsList(i)'
      BY <1>1, <1>4, <2>1
    <3>. QED BY <1>5, <2>1, <3>1 DEF FollowInv, ListRight
  <2>2. CASE ~\A i \in DOMAIN fromDevice : ~IsList(i)
    <3>1. PICK i \in DOMAIN fromDevice :
            /\ IsList(i) /\ fromDevice[i].players = Known(remote)
            /\ \A j \in DOMAIN fromDevice : j > i => ~IsList(j)
      BY <2>2 DEF FollowInv, ListRight
    <3>2. i \in DOMAIN fromDevice' /\ IsList(i)' /\ fromDevice'[i] = fromDevice[i]
          /\ \A j \in DOMAIN fromDevice' : j > i => ~IsList(j)'
      BY <1>1, <1>4, <3>1
    <3>. QED BY <1>5, <3>1, <3>2 DEF ListRight
  <2>. QED BY <2>1, <2>2
<1>7. ASSUME NEW p \in Player, loaded, remote'[p] # None, Lasts(p)'
      PROVE  Asked("status", p)' \/ StatusRight(p)'
  <2>1. Lasts(p) /\ remote[p] # None
    <3>1. Lasts(p)
      BY <1>1, <1>4, <1>7 DEF Lasts, IsList
    <3>. QED BY <1>7, <3>1
  <2>2. ASSUME NEW f \in Field, p = q, f \in DOMAIN g
        PROVE  FieldRight(p, f)'
    <3>1. n + 1 \in DOMAIN fromDevice' /\ \A j \in DOMAIN fromDevice' : ~(j > n + 1)
      BY <1>1
    <3>2. IsUpdate(n + 1, p, f)' /\ fromDevice'[n + 1].fields[f] = remote'[p][f]
      BY <1>1, <1>2, <2>2 DEF IsUpdate
    <3>. QED BY <3>1, <3>2 DEF FieldRight
  <2>3. ASSUME NEW f \in Field, p # q \/ f \notin DOMAIN g, FieldRight(p, f)
        PROVE  FieldRight(p, f)'
    <3>1. \A i \in 1..n + 1 : IsUpdate(i, p, f)' <=> i \in 1..n /\ IsUpdate(i, p, f)
      <4>1. ASSUME NEW i \in 1..n PROVE IsUpdate(i, p, f)' <=> IsUpdate(i, p, f)
        BY <1>1 DEF IsUpdate
      <4>2. ~IsUpdate(n + 1, p, f)'
        BY <1>1, <1>2, <2>3 DEF IsUpdate
      <4>. QED BY <1>1, <1>3, <4>1, <4>2
    <3>2. remote'[p][f] = remote[p][f]
      BY <2>3
    <3>3. CASE \A i \in DOMAIN fromDevice : ~IsUpdate(i, p, f)
      <4>1. \A i \in DOMAIN fromDevice' : ~IsUpdate(i, p, f)'
        BY <1>1, <3>1, <3>3
      <4>2. m_players[p][f] = remote[p][f] \/ (f = "pos" /\ Asked("SetPosition", p))
        BY <2>3, <3>3 DEF FieldRight
      <4>. QED BY <2>3, <3>2, <4>1, <4>2 DEF FieldRight
    <3>4. ASSUME NEW i \in DOMAIN fromDevice, IsUpdate(i, p, f), fromDevice[i].fields[f] = remote[p][f],
                 \A j \in DOMAIN fromDevice : j > i => ~IsUpdate(j, p, f)
          PROVE  FieldRight(p, f)'
      <4>1. i \in DOMAIN fromDevice' /\ fromDevice'[i] = fromDevice[i] /\ IsUpdate(i, p, f)'
        BY <1>1, <3>1, <3>4
      <4>2. \A j \in DOMAIN fromDevice' : j > i => ~IsUpdate(j, p, f)'
        BY <1>1, <3>1, <3>4
      <4>. QED BY <3>2, <3>4, <4>1, <4>2 DEF FieldRight
    <3>. QED BY <2>3, <3>3, <3>4 DEF FieldRight
  <2>4. CASE StatusRight(p)
    BY <2>2, <2>3, <2>4 DEF StatusRight
  <2>5. CASE Asked("status", p)
    <3>1. CASE p = q /\ DOMAIN g = Field
      BY <2>2, <3>1 DEF StatusRight
    <3>. QED BY <2>5, <3>1
  <2>. QED BY <1>7, <2>1, <2>4, <2>5 DEF FollowInv
<1>. QED BY <1>5, <1>6, <1>7 DEF FollowInv

(* The plugin reads the packet in front.                                   *)
LEMMA ReadInFront ==
  ASSUME WireType, fromDevice # <<>>, fromDevice' = Tail(fromDevice)
  PROVE  /\ \A j \in DOMAIN fromDevice' : /\ j + 1 \in DOMAIN fromDevice /\ j + 1 > 1
                                          /\ fromDevice'[j] = fromDevice[j + 1]
         /\ \A i \in DOMAIN fromDevice :
              \/ i = 1
              \/ i - 1 \in DOMAIN fromDevice' /\ fromDevice'[i - 1] = fromDevice[i] /\ i > 1
         /\ DOMAIN fromDevice \subseteq Int /\ DOMAIN fromDevice' \subseteq Int
         /\ 1 \in DOMAIN fromDevice /\ fromDevice[1] = Head(fromDevice)
<1>1. /\ Len(fromDevice) \in Nat \ {0} /\ DOMAIN fromDevice = 1..Len(fromDevice)
      /\ DOMAIN fromDevice' = 1..Len(fromDevice) - 1 /\ Head(fromDevice) = fromDevice[1]
      /\ \A i \in 1..Len(fromDevice) - 1 : fromDevice'[i] = fromDevice[i + 1]
  BY Shrunk
<1>2. ASSUME NEW i \in 1..Len(fromDevice), i # 1
      PROVE  i - 1 \in 1..Len(fromDevice) - 1 /\ fromDevice'[i - 1] = fromDevice[i] /\ i > 1
  <2>1. i - 1 \in 1..Len(fromDevice) - 1 /\ i > 1
    BY <1>1, <1>2
  <2>. QED BY <1>1, <2>1
<1>. QED BY <1>1, <1>2

(* The list that comes last comes last still, or it is the one in front.   *)
LEMMA ListsRead ==
  ASSUME WireType, fromDevice # <<>>, fromDevice' = Tail(fromDevice), ListRight, UNCHANGED remote,
         (\A i \in DOMAIN fromDevice' : ~IsList(i)') /\ loaded' =>
           \/ Head(fromDevice).kind = "list" /\ Known(m_players') = Head(fromDevice).players
           \/ /\ Head(fromDevice).kind # "list" /\ Known(m_players') = Known(m_players) /\ loaded
              /\ ListAsked => ListAsked'
  PROVE  ListRight'
<1>1. CASE \A i \in DOMAIN fromDevice' : ~IsList(i)'
  <2>1. Known(remote') = Known(remote)
    BY DEF Known
  <2>2. ASSUME NEW i \in DOMAIN fromDevice, IsList(i) PROVE i = 1
    <3>1. i = 1 \/ (i - 1 \in DOMAIN fromDevice' /\ fromDevice'[i - 1] = fromDevice[i])
      BY ReadInFront
    <3>2. i - 1 \in DOMAIN fromDevice' => ~(fromDevice'[i - 1].kind = "list")
      BY <1>1 DEF IsList
    <3>. QED BY <2>2, <3>1, <3>2 DEF IsList
  <2>3. CASE Head(fromDevice).kind = "list"
    <3>1. Head(fromDevice).players = Known(remote)
      BY <2>2, <2>3, ReadInFront DEF ListRight, IsList
    <3>. QED BY <1>1, <2>1, <2>3, <3>1 DEF ListRight
  <2>4. CASE Head(fromDevice).kind # "list"
    <3>1. \A i \in DOMAIN fromDevice : ~IsList(i)
      BY <2>2, <2>4, ReadInFront DEF IsList
    <3>. QED BY <1>1, <2>1, <2>4, <3>1 DEF ListRight
  <2>. QED BY <2>3, <2>4
<1>2. CASE \E k \in DOMAIN fromDevice' : IsList(k)'
  <2>0. PICK k \in DOMAIN fromDevice' : IsList(k)'
    BY <1>2
  <2>1. k + 1 \in DOMAIN fromDevice /\ k + 1 > 1 /\ IsList(k + 1)
    BY <2>0, ReadInFront DEF IsList
  <2>2. PICK i \in DOMAIN fromDevice :
          /\ IsList(i) /\ fromDevice[i].players = Known(remote)
          /\ \A j \in DOMAIN fromDevice : j > i => ~IsList(j)
    BY <2>1 DEF ListRight
  <2>3. i # 1
    BY <2>1, <2>2
  <2>4. i - 1 \in DOMAIN fromDevice' /\ fromDevice'[i - 1] = fromDevice[i]
    BY <2>3, ReadInFront
  <2>5. \A j \in DOMAIN fromDevice' : j > i - 1 => ~IsList(j)'
    <3>. SUFFICES ASSUME NEW j \in DOMAIN fromDevice', j > i - 1 PROVE ~IsList(j)'
      OBVIOUS
    <3>1. j + 1 \in DOMAIN fromDevice /\ j + 1 > i /\ fromDevice'[j] = fromDevice[j + 1]
      BY ReadInFront
    <3>. QED BY <2>2, <3>1 DEF IsList
  <2>6. PICK l \in DOMAIN fromDevice' : l = i - 1
    BY <2>4
  <2>7. IsList(l)' /\ fromDevice'[l].players = Known(remote')
    BY <2>2, <2>4, <2>6 DEF IsList, Known
  <2>. QED BY <2>5, <2>6, <2>7 DEF ListRight
<1>. QED BY <1>1, <1>2

LEMMA FieldRead ==
  ASSUME WireType, fromDevice # <<>>, fromDevice' = Tail(fromDevice), UNCHANGED remote,
         NEW p \in Player, NEW f \in Field, FieldRight(p, f),
         Asked("SetPosition", p) => Asked("SetPosition", p)',
         m_players'[p][f] = IF IsUpdate(1, p, f) THEN Head(fromDevice).fields[f] ELSE m_players[p][f]
  PROVE  FieldRight(p, f)'
<1>1. CASE \A i \in DOMAIN fromDevice' : ~IsUpdate(i, p, f)'
  <2>1. ASSUME NEW i \in DOMAIN fromDevice, IsUpdate(i, p, f) PROVE i = 1
    <3>1. i = 1 \/ (i - 1 \in DOMAIN fromDevice' /\ fromDevice'[i - 1] = fromDevice[i])
      BY ReadInFront
    <3>2. CASE i - 1 \in DOMAIN fromDevice' /\ fromDevice'[i - 1] = fromDevice[i]
      <4>. DEFINE j == i - 1
      <4>1. j \in DOMAIN fromDevice' /\ fromDevice'[j] = fromDevice[i]
        BY <3>2
      <4>. HIDE DEF j
      <4>2. ~IsUpdate(j, p, f)'
        BY <1>1, <4>1
      <4>. QED BY <2>1, <4>1, <4>2 DEF IsUpdate
    <3>. QED BY <3>1, <3>2
  <2>2. CASE IsUpdate(1, p, f)
    <3>1. Head(fromDevice).fields[f] = remote[p][f]
      BY <2>1, <2>2, ReadInFront DEF FieldRight
    <3>. QED BY <1>1, <2>2, <3>1 DEF FieldRight
  <2>3. CASE ~IsUpdate(1, p, f)
    <3>1. \A i \in DOMAIN fromDevice : ~IsUpdate(i, p, f)
      BY <2>1, <2>3
    <3>. QED BY <1>1, <2>3, <3>1 DEF FieldRight
  <2>. QED BY <2>2, <2>3
<1>2. CASE \E k \in DOMAIN fromDevice' : IsUpdate(k, p, f)'
  <2>0. PICK k \in DOMAIN fromDevice' : IsUpdate(k, p, f)'
    BY <1>2
  <2>1. k + 1 \in DOMAIN fromDevice /\ k + 1 > 1 /\ IsUpdate(k + 1, p, f)
    BY <2>0, ReadInFront DEF IsUpdate
  <2>2. PICK i \in DOMAIN fromDevice :
          /\ IsUpdate(i, p, f) /\ fromDevice[i].fields[f] = remote[p][f]
          /\ \A j \in DOMAIN fromDevice : j > i => ~IsUpdate(j, p, f)
    BY <2>1 DEF FieldRight
  <2>3. i # 1
    BY <2>1, <2>2
  <2>4. i - 1 \in DOMAIN fromDevice' /\ fromDevice'[i - 1] = fromDevice[i]
    BY <2>3, ReadInFront
  <2>5. \A j \in DOMAIN fromDevice' : j > i - 1 => ~IsUpdate(j, p, f)'
    <3>. SUFFICES ASSUME NEW j \in DOMAIN fromDevice', j > i - 1 PROVE ~IsUpdate(j, p, f)'
      OBVIOUS
    <3>1. j + 1 \in DOMAIN fromDevice /\ j + 1 > i /\ fromDevice'[j] = fromDevice[j + 1]
      BY ReadInFront
    <3>. QED BY <2>2, <3>1 DEF IsUpdate
  <2>6. PICK l \in DOMAIN fromDevice' : l = i - 1
    BY <2>4
  <2>7. IsUpdate(l, p, f)' /\ fromDevice'[l].fields[f] = remote'[p][f]
    BY <2>2, <2>4, <2>6 DEF IsUpdate
  <2>. QED BY <2>5, <2>6, <2>7 DEF FieldRight
<1>. QED BY <1>1, <1>2

LEMMA ReadLasts ==
  ASSUME WireType, fromDevice # <<>>, fromDevice' = Tail(fromDevice), NEW p \in Player, Lasts(p)',
         m_players[p] # None, Head(fromDevice).kind = "list" => p \in Head(fromDevice).players
  PROVE  Lasts(p)
<1>1. ASSUME NEW i \in DOMAIN fromDevice, IsList(i) PROVE p \in fromDevice[i].players
  <2>1. CASE i = 1
    BY <1>1, <2>1, ReadInFront DEF IsList
  <2>2. CASE i # 1
    BY <1>1, <2>2, ReadInFront DEF IsList, Lasts
  <2>. QED BY <2>1, <2>2
<1>. QED BY <1>1 DEF Lasts

LEMMA ReceiveStatusFollows ==
  ASSUME IInv, FollowInv, loaded, fromDevice # <<>>, fromDevice' = Tail(fromDevice),
         UNCHANGED <<link, enabled, remote>>,
         Head(fromDevice).kind = "status", receiveStatus(Head(fromDevice))
  PROVE  FollowInv'
<1>. DEFINE np == Head(fromDevice)
<1>1. WireType /\ np \in Packet /\ np.kind = "status" /\ np.player \in Player /\ np.fields \in Fields
      /\ link /\ loaded' /\ toDevice' = toDevice
      /\ m_players \in [Player -> Status \cup {None}]
  <2>1. WireType /\ np \in Packet
    BY DEF IInv, WireInv, WireType
  <2>. QED BY <2>1, PacketParts DEF loaded, receiveStatus, IInv, LocalInv, LocalType
<1>2. IF m_players[np.player] = None THEN m_players' = m_players
      ELSE m_players' = [m_players EXCEPT ![np.player] = Received(np.player, np.fields)]
  BY DEF receiveStatus
<1>3. m_players[np.player] # None =>
        Received(np.player, np.fields) # None
  BY <1>1, ReceivedIsStatus, NoneIsNoStatus
<1>4. \A p \in Player : m_players'[p] = None <=> m_players[p] = None
  BY <1>1, <1>2, <1>3
<1>5. \A p \in Player \ {np.player} : m_players'[p] = m_players[p]
  BY <1>1, <1>2
<1>6. \A f \in Field : m_players[np.player] # None =>
        m_players'[np.player][f] =
          IF f \in DOMAIN np.fields /\ ~(f = "pos" /\ np.player \in Spotify) THEN np.fields[f]
          ELSE m_players[np.player][f]
  BY <1>1, <1>2 DEF Received
<1>7. /\ \A f \in Field, p \in Player : IsUpdate(1, p, f) <=> p = np.player /\ f \in DOMAIN np.fields
      /\ \A kind, p : Asked(kind, p)' <=> Asked(kind, p)
      /\ ListAsked' <=> ListAsked
  BY <1>1, ReadInFront DEF IsUpdate, Asked, ListAsked
<1>. HIDE DEF np
<1>8. ListRight'
  <2>1. Known(m_players') = Known(m_players) /\ Head(fromDevice).kind # "list"
    BY <1>1, <1>4 DEF Known, np
  <2>. QED BY <1>1, <1>7, <2>1, ListsRead DEF FollowInv
<1>9. ASSUME NEW p \in Player, remote'[p] # None, Lasts(p)'
      PROVE  Asked("status", p)' \/ StatusRight(p)'
  <2>1. m_players[p] # None
    BY <1>4, <1>9 DEF Lasts
  <2>2. Lasts(p)
    BY <1>1, <1>9, <2>1, ReadLasts DEF np
  <2>3. ASSUME NEW f \in Field, f = "pos" => p \notin Spotify, FieldRight(p, f)
        PROVE  FieldRight(p, f)'
    <3>1. m_players'[p][f] = IF IsUpdate(1, p, f) THEN Head(fromDevice).fields[f] ELSE m_players[p][f]
      <4>1. CASE p = np.player
        BY <1>6, <1>7, <2>1, <2>3, <4>1 DEF np
      <4>2. CASE p # np.player
        BY <1>5, <1>7, <4>2
      <4>. QED BY <4>1, <4>2
    <3>. QED BY <1>1, <1>7, <2>3, <3>1, FieldRead
  <2>. QED BY <1>1, <1>7, <1>9, <2>2, <2>3 DEF FollowInv, StatusRight
<1>10. ASSUME NEW p \in Spotify, m_players'[p] # None PROVE m_players'[p].pos = -1
  <2>1. p \in Player /\ m_players[p] # None /\ m_players[p]["pos"] = -1 /\ "pos" \in Field
    BY <1>4, <1>10, PlayersAssumption DEF FollowInv, Field
  <2>. QED BY <1>5, <1>6, <2>1
<1>. QED BY <1>1, <1>8, <1>9, <1>10 DEF FollowInv

LEMMA ReceiveListFollows ==
  ASSUME IInv, FollowInv, loaded, fromDevice # <<>>, fromDevice' = Tail(fromDevice),
         UNCHANGED <<link, enabled, remote>>,
         Head(fromDevice).kind = "list", receiveList(Head(fromDevice))
  PROVE  FollowInv'
<1>. DEFINE np == Head(fromDevice)
            added == np.players \ Known(m_players)
            removed == Known(m_players) \ np.players
<1>1. WireType /\ np \in Packet /\ np.kind = "list" /\ np.players \subseteq Player /\ link /\ loaded'
      /\ m_players \in [Player -> Status \cup {None}]
  <2>1. WireType /\ np \in Packet
    BY DEF IInv, WireInv, WireType
  <2>. QED BY <2>1, PacketParts DEF loaded, IInv, LocalInv, LocalType
<1>2. m_players' = [p \in Player |-> IF p \in added THEN MprisPlayer
                                     ELSE IF p \in removed THEN None ELSE m_players[p]]
  BY DEF receiveList
<1>3. requestPlayerStatus(added)
  BY DEF receiveList
<1>4. \A p \in Player :
        /\ m_players'[p] # None <=> p \in np.players
        /\ m_players[p] # None /\ m_players'[p] # None => m_players'[p] = m_players[p]
        /\ m_players[p] = None /\ m_players'[p] # None => m_players'[p] = MprisPlayer /\ p \in added
  BY <1>2, NewPlayer, NoneIsNoStatus DEF Known
<1>5. added \subseteq Player
  BY <1>1
<1>. HIDE DEF np, added, removed
<1>6. /\ \A kind \in {"status", "SetPosition"}, p \in Player : Asked(kind, p) => Asked(kind, p)'
      /\ \A p \in added : Asked("status", p)'
  <2>1. Cardinality(added) \in Nat
    <3>1. IsFiniteSet(added)
      BY <1>5, PlayersAssumption, FS_Subset
    <3>. QED BY <3>1, FS_CardinalityType
  <2>2. PICK order \in [1..Cardinality(added) -> added] :
          /\ {order[i] : i \in DOMAIN order} = added
          /\ toDevice' = toDevice \o [i \in DOMAIN order |-> [kind |-> "status", player |-> order[i]]]
    BY <1>3 DEF requestPlayerStatus
  <2>. DEFINE new == [i \in 1..Cardinality(added) |-> [kind |-> "status", player |-> order[i]]]
  <2>3. \A i \in 1..Cardinality(added) : [kind |-> "status", player |-> order[i]] \in Request
    BY <1>5, RequestsMade
  <2>4. new \in Seq(Request) /\ toDevice' = toDevice \o new
    <3>1. new \in Seq(Request)
      BY <2>1, <2>3
    <3>2. toDevice' = toDevice \o new
      BY <2>2
    <3>. QED BY <3>1, <3>2
  <2>5. \A i \in 1..Cardinality(added) : i \in DOMAIN new /\ new[i].kind = "status" /\ new[i].player = order[i]
    OBVIOUS
  <2>. HIDE DEF new
  <2>6. /\ \A kind \in {"status", "SetPosition"}, p \in Player : Asked(kind, p) => Asked(kind, p)'
        /\ \A i \in DOMAIN new : \E j \in DOMAIN toDevice' : toDevice'[j] = new[i]
    BY <1>1, <2>4, AppendAsked
  <2>7. ASSUME NEW p \in added PROVE Asked("status", p)'
    <3>1. PICK i \in 1..Cardinality(added) : order[i] = p
      BY <2>2
    <3>. QED BY <2>5, <2>6, <3>1 DEF Asked
  <2>. QED BY <2>6, <2>7
<1>7. ListRight'
  <2>1. Known(m_players') = np.players
    BY <1>1, <1>4 DEF Known
  <2>. QED BY <1>1, <2>1, ListsRead DEF FollowInv, np
<1>8. ASSUME NEW p \in Player, remote'[p] # None, Lasts(p)'
      PROVE  Asked("status", p)' \/ StatusRight(p)'
  <2>1. p \in np.players /\ m_players'[p] # None
    BY <1>4, <1>8 DEF Lasts
  <2>2. CASE m_players[p] = None
    BY <1>4, <1>6, <2>1, <2>2
  <2>3. CASE m_players[p] # None
    <3>1. Lasts(p) /\ m_players'[p] = m_players[p]
      BY <1>1, <1>4, <1>8, <2>1, <2>3, ReadLasts DEF np
    <3>2. ASSUME NEW f \in Field, FieldRight(p, f)
          PROVE  FieldRight(p, f)'
      <4>1. ~IsUpdate(1, p, f)
        BY <1>1, ReadInFront DEF IsUpdate, np
      <4>. QED BY <1>1, <1>6, <3>1, <3>2, <4>1, FieldRead
    <3>. QED BY <1>6, <1>8, <3>1, <3>2 DEF FollowInv, StatusRight
  <2>. QED BY <2>2, <2>3
<1>9. ASSUME NEW p \in Spotify, m_players'[p] # None PROVE m_players'[p].pos = -1
  <2>1. p \in Player /\ MprisPlayer.pos = -1
    BY PlayersAssumption DEF MprisPlayer
  <2>. QED BY <1>4, <1>9, <2>1 DEF FollowInv
<1>. QED BY <1>1, <1>7, <1>8, <1>9 DEF FollowInv

LEMMA ReceiveFollows ==
  ASSUME IInv, FollowInv, receivePacket
  PROVE  FollowInv'
<1>1. link /\ fromDevice # <<>> /\ fromDevice' = Tail(fromDevice) /\ UNCHANGED <<link, enabled, remote>>
  BY DEF receivePacket
<1>2. CASE loaded
  BY <1>1, <1>2, ReceiveStatusFollows, ReceiveListFollows DEF receivePacket
<1>3. CASE ~loaded
  <2>1. ~loaded' /\ link' /\ UNCHANGED m_players
    BY <1>1, <1>3 DEF receivePacket, loaded, pluginVars
  <2>2. ListRight'
    BY <1>1, <2>1, ListsRead DEF FollowInv, IInv, WireInv
  <2>. QED BY <2>1, <2>2 DEF FollowInv
<1>. QED BY <1>2, <1>3

-----------------------------------------------------------------------------
(* The other steps.                                                        *)

(* Without a connection nothing is told.                                   *)
LEMMA NothingTold ==
  ASSUME FollowInv, ~link, UNCHANGED <<link, enabled, m_players>>, fromDevice' = <<>>
  PROVE  FollowInv'
BY DEF FollowInv, loaded

(* The device sets a field or several, perhaps because it was asked to.    *)
LEMMA SetsFollow ==
  ASSUME IInv, FollowInv, UNCHANGED <<link, enabled, m_players>>,
         NEW q \in Player, remote[q] # None, NEW g \in Fields, RemoteSets(q, g),
         \A p \in Player : Asked("status", p) => Asked("status", p)',
         \A p \in Player : Asked("SetPosition", p) => Asked("SetPosition", p)' \/ (p = q /\ "pos" \in DOMAIN g),
         ListAsked => ListAsked'
  PROVE  FollowInv'
<1>. DEFINE new == [f \in Field |-> IF f \in DOMAIN g THEN g[f] ELSE remote[q][f]]
<1>1. remote' = [remote EXCEPT ![q] = new] /\ Tell([kind |-> "status", player |-> q, fields |-> g])
  BY DEF RemoteSets
<1>2. remote \in [Player -> Status \cup {None}]
  BY DEF IInv, WireInv, WireType
<1>3. new # None
  <2>1. new \in Status
    <3>1. remote[q] \in Status
      BY <1>2
    <3>2. new["isPlaying"] \in BOOLEAN /\ new["allowed"] \in BOOLEAN
      BY <3>1, FieldsKnow, StatusFields DEF Field
    <3>3. new["pos"] \in {-1, 0, 1}
      BY <3>1, FieldsKnow, StatusFields DEF Field
    <3>. QED BY <3>2, <3>3, StatusMade
  <2>. QED BY <2>1, NoneIsNoStatus
<1>4. \A f \in Field : new[f] = IF f \in DOMAIN g THEN g[f] ELSE remote[q][f]
  OBVIOUS
<1>. HIDE DEF new
<1>5. remote'[q] = new /\ \A p \in Player \ {q} : remote'[p] = remote[p]
  BY <1>1, <1>2
<1>6. CASE link
  BY <1>1, <1>3, <1>4, <1>5, <1>6, StatusTold
<1>7. CASE ~link
  BY <1>1, <1>7, NothingTold DEF Tell
<1>. QED BY <1>6, <1>7

LEMMA ListFollows ==
  ASSUME IInv, FollowInv, UNCHANGED <<link, enabled, m_players>>, Tell(List(remote')),
         \A p \in Player : remote'[p] # None => remote[p] = None \/ remote'[p] = remote[p],
         \A kind \in {"status", "SetPosition"}, p \in Player :
           remote'[p] # None /\ Asked(kind, p) => Asked(kind, p)'
  PROVE  FollowInv'
<1>1. CASE link
  BY <1>1, ListTold
<1>2. CASE ~link
  BY <1>2, NothingTold DEF Tell
<1>. QED BY <1>1, <1>2

LEMMA ActsFollow ==
  ASSUME IInv, FollowInv, RemoteActs
  PROVE  FollowInv'
<1>1. PICK q \in Player : RemoteComesOrGoes(q) \/ RemoteChanges(q)
  BY DEF RemoteActs
<1>2. /\ UNCHANGED <<link, enabled, m_players, toDevice>>
      /\ remote \in [Player -> Status \cup {None}]
  BY DEF RemoteActs, pluginVars, IInv, WireInv, WireType
<1>3. (\A kind, p : Asked(kind, p) => Asked(kind, p)') /\ (ListAsked => ListAsked')
  BY <1>2 DEF Asked, ListAsked
<1>4. CASE RemoteComesOrGoes(q)
  <2>1. Tell(List(remote')) /\ \A p \in Player : remote'[p] # None => remote[p] = None \/ remote'[p] = remote[p]
    BY <1>2, <1>4 DEF RemoteComesOrGoes
  <2>. QED BY <1>2, <1>3, <2>1, ListFollows
<1>5. CASE RemoteChanges(q)
  <2>1. remote[q] # None /\ remote[q] \in Status /\ remote[q].pos \in {0, 1}
    BY <1>2, <1>5 DEF RemoteChanges, IInv, WireInv, RemoteKnows
  <2>2. (~remote[q].isPlaying) \in BOOLEAN /\ (~remote[q].allowed) \in BOOLEAN /\ 1 - remote[q].pos \in {0, 1}
    BY <2>1
  <2>3. PICK g \in Fields : RemoteSets(q, g)
    BY <1>5, <2>2, OneField DEF RemoteChanges
  <2>. QED BY <1>2, <1>3, <2>1, <2>3, SetsFollow
<1>. QED BY <1>1, <1>4, <1>5

LEMMA AnswersFollow ==
  ASSUME IInv, FollowInv, RemoteAnswers
  PROVE  FollowInv'
<1>. DEFINE np == Head(toDevice)
<1>1. /\ np \in Request /\ Answer(np) /\ UNCHANGED <<link, enabled, m_players>>
      /\ remote \in [Player -> Status \cup {None}]
  BY DEF RemoteAnswers, IInv, WireInv, WireType, pluginVars
<1>2. /\ \A kind \in {"status", "SetPosition"}, p \in Player :
           Asked(kind, p) => Asked(kind, p)' \/ (np.kind = kind /\ np.player = p)
      /\ ListAsked => ListAsked' \/ np.kind = "requestPlayerList"
  BY AnswerAsked DEF RemoteAnswers, IInv, WireInv
<1>. HIDE DEF np
<1>3. CASE np.kind = "requestPlayerList" \/ remote[np.player] = None
  <2>1. remote' = remote /\ Tell(List(remote'))
    BY <1>1, <1>3 DEF Answer
  <2>. QED BY <1>1, <1>2, <1>3, <2>1, ListFollows
<1>4. CASE np.kind # "requestPlayerList" /\ remote[np.player] # None
  <2>1. /\ np.player \in Player /\ remote[np.player] \in Status /\ remote[np.player].pos \in {0, 1}
        /\ np.kind \in {"status", "action", "Stop", "seek", "SetPosition"}
    BY <1>1, <1>4, RequestParts DEF IInv, WireInv, RemoteKnows
  <2>2. CASE np.kind = "status"
    <3>1. Tell([kind |-> "status", player |-> np.player, fields |-> remote[np.player]]) /\ UNCHANGED remote
      BY <1>1, <1>4, <2>2 DEF Answer
    <3>2. remote[np.player] \in Fields /\ DOMAIN remote[np.player] = Field
      BY <2>1, StatusFields
    <3>3. CASE link
      BY <1>1, <1>2, <1>4, <2>1, <2>2, <3>1, <3>2, <3>3, StatusTold
    <3>4. CASE ~link
      BY <1>1, <3>1, <3>4, NothingTold DEF Tell
    <3>. QED BY <3>3, <3>4
  <2>3. CASE np.kind # "status"
    <3>1. (~remote[np.player].isPlaying) \in BOOLEAN /\ 1 - remote[np.player].pos \in {0, 1}
      BY <2>1
    <3>2. PICK g \in Fields : RemoteSets(np.player, g) /\ (np.kind = "SetPosition" => "pos" \in DOMAIN g)
      <4>1. CASE np.kind = "action"
        BY <1>1, <1>4, <3>1, <4>1, OneField DEF Answer
      <4>2. CASE np.kind = "Stop"
        BY <1>1, <1>4, <4>2, OneField DEF Answer
      <4>3. CASE np.kind = "seek"
        BY <1>1, <1>4, <3>1, <4>3, OneField DEF Answer
      <4>4. CASE np.kind = "SetPosition"
        <5>1. RemoteSets(np.player, [pos |-> np.pos]) /\ np.pos \in {0, 1}
          BY <1>1, <1>4, <4>4, RequestParts DEF Answer
        <5>2. "pos" \in DOMAIN [pos |-> np.pos]
          OBVIOUS
        <5>. QED BY <5>1, <5>2, OneField
      <4>. QED BY <2>1, <2>3, <4>1, <4>2, <4>3, <4>4
    <3>. QED BY <1>1, <1>2, <1>4, <2>1, <2>3, <3>2, SetsFollow
  <2>. QED BY <2>2, <2>3
<1>. QED BY <1>3, <1>4

(* What changes neither what is known nor what is under way.               *)
LEMMA StillFollows ==
  ASSUME FollowInv, UNCHANGED <<link, enabled, m_players, remote, fromDevice>>,
         \A kind \in {"status", "SetPosition"}, p \in Player : Asked(kind, p) => Asked(kind, p)',
         ListAsked => ListAsked'
  PROVE  FollowInv'
<1>1. loaded' = loaded
  BY DEF loaded
<1>2. ListRight => ListRight'
  BY <1>1 DEF ListRight, IsList, Known
<1>3. \A p \in Player : (Lasts(p)' <=> Lasts(p)) /\ (StatusRight(p) => StatusRight(p)')
  BY DEF Lasts, IsList, StatusRight, FieldRight, IsUpdate
<1>. QED BY <1>1, <1>2, <1>3 DEF FollowInv

LEMMA CommandFollows ==
  ASSUME IInv, FollowInv, NEW p \in Player, Command(p)
  PROVE  FollowInv'
<1>1. /\ Emitted /\ shown[p] # None /\ UNCHANGED <<link, enabled, remote, fromDevice>>
      /\ WireType /\ m_players \in [Player -> Status \cup {None}]
  BY DEF Command, IInv, WireInv, LocalInv, LocalType
<1>2. ASSUME NEW method \in {"action", "Stop", "seek"}, sendCommand(p, method)
      PROVE  FollowInv'
  <2>1. /\ toDevice' = Append(toDevice, [kind |-> method, player |-> p]) /\ UNCHANGED m_players
        /\ [kind |-> method, player |-> p] \in Request
    BY <1>2, RequestsMade DEF sendCommand, sendPacket
  <2>. QED BY <1>1, <2>1, SentAsked, StillFollows
<1>3. ASSUME NEW pos \in {0, 1}, setPosition(p, pos)
      PROVE  FollowInv'
  <2>. DEFINE np == [kind |-> "SetPosition", player |-> p, pos |-> pos]
  <2>1. np \in Request /\ toDevice' = Append(toDevice, np)
    BY <1>3, RequestsMade DEF setPosition, sendPacket
  <2>2. np.kind = "SetPosition" /\ np.player = p
    OBVIOUS
  <2>. HIDE DEF np
  <2>3. /\ \A kind \in {"status", "SetPosition"}, q \in Player : Asked(kind, q) => Asked(kind, q)'
        /\ ListAsked => ListAsked'
        /\ Asked("SetPosition", p)'
    <3>1. /\ \A kind \in {"status", "SetPosition"}, q \in Player : Asked(kind, q) => Asked(kind, q)'
          /\ ListAsked => ListAsked'
          /\ \E j \in DOMAIN toDevice' : toDevice'[j] = np
      BY <1>1, <2>1, SentAsked
    <3>. QED BY <2>2, <3>1 DEF Asked
  <2>4. m_players[p] \in Status /\ p \notin Spotify
    <3>1. m_players[p] # None
      BY <1>1 DEF IInv, LocalInv, Rows, RowsHavePlayers, Emitted, Quiet
    <3>. QED BY <1>1, <1>3, <3>1 DEF setPosition, seekAllowed
  <2>5. /\ \A q \in Player \ {p} : m_players'[q] = m_players[q]
        /\ m_players'[p] = [m_players[p] EXCEPT !.pos = pos]
    BY <1>1, <1>3 DEF setPosition
  <2>6. /\ m_players'[p] # None /\ m_players[p] # None
        /\ \A f \in Field : f # "pos" => m_players'[p][f] = m_players[p][f]
    <3>1. [m_players[p] EXCEPT !.pos = pos] \in Status
      BY <2>4 DEF Status
    <3>2. DOMAIN m_players[p] = Field
      BY <2>4, StatusFields
    <3>. QED BY <2>4, <2>5, <3>1, <3>2, NoneIsNoStatus
  <2>7. \A q \in Player : m_players'[q] = None <=> m_players[q] = None
    BY <2>5, <2>6
  <2>8. loaded' = loaded /\ Known(m_players') = Known(m_players)
    BY <1>1, <2>7 DEF loaded, Known
  <2>9. ListRight => ListRight'
    BY <1>1, <2>3, <2>8 DEF ListRight, IsList
  <2>10. ASSUME NEW q \in Player
         PROVE  (Lasts(q)' <=> Lasts(q)) /\ (StatusRight(q) => StatusRight(q)')
    <3>1. Lasts(q)' <=> Lasts(q)
      BY <1>1, <2>7 DEF Lasts, IsList
    <3>2. ASSUME NEW f \in Field, FieldRight(q, f)
          PROVE  FieldRight(q, f)'
      <4>1. \/ m_players'[q][f] = m_players[q][f]
            \/ q = p /\ f = "pos"
        BY <2>5, <2>6
      <4>. QED BY <1>1, <2>3, <3>2, <4>1 DEF FieldRight, IsUpdate
    <3>. QED BY <3>1, <3>2 DEF StatusRight
  <2>11. \A q \in Spotify : m_players'[q] # None => m_players'[q].pos = -1
    BY <2>4, <2>5, PlayersAssumption DEF FollowInv
  <2>. QED BY <1>1, <2>3, <2>8, <2>9, <2>10, <2>11 DEF FollowInv
<1>. QED BY <1>2, <1>3 DEF Command

(* A plugin that was just loaded knows of no player, and asks for the list.*)
LEMMA ReloadFollows ==
  ASSUME IInv, FollowInv, NEW queued \in {toDevice, <<>>}, NEW now \in BOOLEAN, now = loaded',
         Reloaded(loaded, now, queued), UNCHANGED remote,
         \/ UNCHANGED <<link, fromDevice>> /\ queued = toDevice
         \/ fromDevice' = <<>> /\ link' = ~link
  PROVE  FollowInv'
<1>1. loaded \in BOOLEAN /\ loaded' \in BOOLEAN /\ link \in BOOLEAN /\ WireType
  BY DEF loaded, IInv, LocalInv, LocalType, WireInv
<1>2. CASE loaded = loaded'
  <2>1. toDevice' = queued /\ UNCHANGED m_players
    BY <1>2 DEF Reloaded
  <2>2. CASE UNCHANGED <<link, fromDevice>> /\ queued = toDevice
    <3>1. (\A kind, p : Asked(kind, p) => Asked(kind, p)') /\ (ListAsked => ListAsked')
      BY <2>1, <2>2 DEF Asked, ListAsked
    <3>2. ListRight => ListRight'
      BY <1>2, <2>1, <2>2, <3>1 DEF ListRight, IsList, Known
    <3>3. \A p \in Player : (Lasts(p)' <=> Lasts(p)) /\ (StatusRight(p) => StatusRight(p)')
      BY <2>1, <2>2, <3>1 DEF Lasts, IsList, StatusRight, FieldRight, IsUpdate
    <3>. QED BY <1>2, <2>1, <2>2, <3>1, <3>2, <3>3 DEF FollowInv
  <2>3. CASE fromDevice' = <<>> /\ link' = ~link
    <3>1. ~loaded'
      BY <1>1, <1>2, <2>3 DEF loaded
    <3>2. ListRight'
      BY <2>3, <3>1 DEF ListRight
    <3>. QED BY <2>1, <2>3, <3>1, <3>2 DEF FollowInv
  <2>. QED BY <2>2, <2>3
<1>3. CASE loaded # loaded'
  <2>1. m_players' = NoPlayers
    BY <1>1, <1>3 DEF Reloaded
  <2>2. loaded' => ListAsked'
    <3>1. loaded' => toDevice' = Append(queued, [kind |-> "requestPlayerList"])
      BY <1>1, <1>3 DEF Reloaded
    <3>2. [kind |-> "requestPlayerList"] \in Request
      BY RequestsMade
    <3>3. loaded' => \E j \in DOMAIN toDevice' : toDevice'[j] = [kind |-> "requestPlayerList"]
      BY <1>1, <3>1, <3>2, SentAsked
    <3>. QED BY <3>3 DEF ListAsked
  <2>3. /\ \A p \in Player : ~Lasts(p)'
        /\ \A p \in Spotify : m_players'[p] = None
        /\ Known(m_players') = {}
    BY <2>1, NobodyKnown, PlayersAssumption DEF Lasts
  <2>4. (~link)' => fromDevice' = <<>>
    BY DEF FollowInv
  <2>5. link' => ListRight'
    <3>1. CASE fromDevice' = <<>>
      BY <2>2, <2>3, <3>1 DEF ListRight
    <3>2. CASE UNCHANGED <<link, fromDevice>>
      <4>1. link' => ListRight
        BY <3>2 DEF FollowInv
      <4>. QED BY <2>2, <2>3, <3>2, <4>1 DEF ListRight, IsList, Known
    <3>. QED BY <3>1, <3>2
  <2>. QED BY <2>2, <2>3, <2>4, <2>5 DEF FollowInv
<1>. QED BY <1>2, <1>3

LEMMA LinkFollows ==
  ASSUME IInv, FollowInv, LinkChanges
  PROVE  FollowInv'
<1>1. link' = ~link /\ enabled' = enabled /\ fromDevice' = <<>> /\ UNCHANGED remote
      /\ Reloaded(loaded, ~link /\ enabled, <<>>)
  BY DEF LinkChanges
<1>2. (~link /\ enabled) = loaded'
  BY <1>1, Zenon DEF loaded
<1>3. (~link /\ enabled) \in BOOLEAN
  OBVIOUS
<1>. QED BY <1>1, <1>2, <1>3, ReloadFollows

LEMMA SetDataFollows ==
  ASSUME IInv, FollowInv, NEW value \in BOOLEAN, setData(value)
  PROVE  FollowInv'
<1>1. enabled' = value /\ UNCHANGED <<link, remote, fromDevice>>
      /\ Reloaded(loaded, link /\ value, toDevice)
  BY DEF setData
<1>2. (link /\ value) = loaded'
  BY <1>1, Zenon DEF loaded
<1>3. (link /\ value) \in BOOLEAN
  OBVIOUS
<1>. QED BY <1>1, <1>2, <1>3, ReloadFollows

LEMMA NextFollows ==
  ASSUME IInv, FollowInv, [Next]_vars
  PROVE  FollowInv'
<1>1. ASSUME UNCHANGED <<link, enabled, m_players, wireVars>> PROVE FollowInv'
  BY <1>1, StillFollows DEF wireVars, Asked, ListAsked
<1>2. ASSUME NEW p \in Player, Command(p) PROVE FollowInv'
  BY <1>2, CommandFollows
<1>3. ASSUME NEW value \in BOOLEAN, setData(value) PROVE FollowInv'
  BY <1>3, SetDataFollows
<1>4. CASE receivePacket \/ RemoteAnswers \/ RemoteActs \/ LinkChanges
  BY <1>4, ReceiveFollows, AnswersFollow, ActsFollow, LinkFollows
<1>5. CASE EmitSignal \/ OpenPage \/ ClosePage \/ pluginsChanged \/ UNCHANGED vars
  BY <1>1, <1>5 DEF EmitSignal, OpenPage, ClosePage, pluginsChanged, pluginVars, vars, wireVars
<1>. QED BY <1>2, <1>3, <1>4, <1>5 DEF Next

-----------------------------------------------------------------------------
(* The invariant.                                                          *)

LEMMA InitInv == Init => IInv
<1> SUFFICES ASSUME Init PROVE IInv
  OBVIOUS
<1>1. Emitted /\ page = "closed" /\ shown = NoPlayers /\ connected = {} /\ notices = 0
  BY DEF Init, Emitted
<1>2. LocalType
  <2>1. pending \in [added: SUBSET Known(m_players), removed: SUBSET (Player \ Known(m_players))]
    BY QuietType DEF Init
  <2>2. link \in BOOLEAN /\ enabled \in BOOLEAN /\ pageShows \in BOOLEAN
    BY Zenon DEF Init
  <2>3. m_players \in [Player -> Status \cup {None}] /\ shown \in [Player -> Status \cup {None}]
    BY NobodyKnown DEF Init
  <2>4. /\ page \in {"closed", "noPlugin", "plugin"} /\ connected \subseteq Player
        /\ m_loadedPlugins \in BOOLEAN \cup {None} /\ notices \in Nat
    BY DEF Init
  <2>5. changes \in 0..MaxChanges
    BY PlayersAssumption DEF Init
  <2> QED
    BY <2>1, <2>2, <2>3, <2>4, <2>5 DEF LocalType
<1>3. Rows
  BY <1>1, NobodyKnown DEF Rows, RowsHavePlayers, Unlisted, Signalled
<1>4. DeviceApiCurrent
  BY <1>1 DEF DeviceApiCurrent
<1>5. WireInv
  BY NobodyKnown DEF Init, WireInv, WireType, RemoteKnows
<1> QED
  BY <1>2, <1>3, <1>4, <1>5 DEF IInv, LocalInv

LEMMA NextInv == IInv /\ [Next]_vars => IInv'
<1> SUFFICES ASSUME IInv, [Next]_vars PROVE IInv'
  OBVIOUS
<1> USE DEF IInv
<1>1. ASSUME UNCHANGED <<link, enabled, pluginVars, modelVars, apiVars>>, changes' \in 0..MaxChanges
      PROVE  LocalInv'
  BY <1>1 DEF LocalInv, LocalType, Rows, RowsHavePlayers, Unlisted, Signalled, DeviceApiCurrent, pluginVars,
    modelVars, apiVars, isPluginLoaded, loaded
<1>2. changes \in 0..MaxChanges
  BY DEF LocalInv, LocalType
<1>3. CASE UNCHANGED vars
  BY <1>1, <1>2, <1>3 DEF vars, pluginVars, modelVars, apiVars, WireInv, WireType, RemoteKnows
<1>4. CASE receivePacket
  BY <1>4, ReceiveKeeps
<1>5. CASE EmitSignal
  BY <1>5, EmitKeeps DEF EmitSignal, WireInv, WireType, RemoteKnows, wireVars
<1>6. CASE RemoteAnswers
  BY <1>1, <1>2, <1>6, RemoteAnswersKeeps DEF RemoteAnswers
<1>7. CASE RemoteActs
  <2>1. changes' \in 0..MaxChanges
    BY <1>2, <1>7, PlayersAssumption DEF RemoteActs, RemoteComesOrGoes, RemoteChanges, Change
  <2> QED
    BY <1>1, <1>7, <2>1, RemoteActsKeeps DEF RemoteActs
<1>8. ASSUME NEW p \in Player, Command(p) PROVE IInv'
  BY <1>8, CommandKeeps
<1>9. CASE LinkChanges
  <2>1. /\ Emitted /\ link' \in BOOLEAN /\ enabled' \in BOOLEAN /\ changes' \in 0..MaxChanges
        /\ UNCHANGED <<pending, remote, m_loadedPlugins, pageShows>> /\ fromDevice' = <<>>
    BY <1>2, <1>9, PlayersAssumption DEF LinkChanges, Change, LocalInv, LocalType
  <2>2. /\ Reloaded(loaded, ~link /\ enabled, <<>>) /\ (~link /\ enabled) \in BOOLEAN
        /\ (~link /\ enabled) = loaded' /\ <<>> \in Seq(Request)
    <3>1. Reloaded(loaded, ~link /\ enabled, <<>>)
      BY <1>9 DEF LinkChanges
    <3>2. (~link /\ enabled) \in BOOLEAN
      OBVIOUS
    <3>3. (~link /\ enabled) = loaded'
      <4>1. link' = ~link /\ enabled' = enabled
        BY <1>9 DEF LinkChanges
      <4> QED
        BY <4>1, Zenon DEF loaded
    <3> QED
      BY <3>1, <3>2, <3>3
  <2>3. LocalInv' /\ toDevice' \in Seq(Request)
    BY <2>1, <2>2, Reloads
  <2> QED
    BY <2>1, <2>3 DEF WireInv, WireType, RemoteKnows
<1>10. ASSUME NEW value \in BOOLEAN, setData(value) PROVE IInv'
  <2>1. /\ Emitted /\ link' \in BOOLEAN /\ enabled' \in BOOLEAN /\ changes' \in 0..MaxChanges
        /\ UNCHANGED <<pending, remote, fromDevice, m_loadedPlugins, pageShows>>
    BY <1>2, <1>10, PlayersAssumption DEF setData, Change, LocalInv, LocalType
  <2>2. /\ Reloaded(loaded, link /\ value, toDevice) /\ (link /\ value) \in BOOLEAN
        /\ (link /\ value) = loaded' /\ toDevice \in Seq(Request)
    <3>1. Reloaded(loaded, link /\ value, toDevice)
      BY <1>10 DEF setData
    <3>2. (link /\ value) \in BOOLEAN /\ toDevice \in Seq(Request)
      BY DEF WireInv, WireType
    <3>3. (link /\ value) = loaded'
      <4>1. link' = link /\ enabled' = value
        BY <1>10 DEF setData
      <4> QED
        BY <4>1, Zenon DEF loaded
    <3> QED
      BY <3>1, <3>2, <3>3
  <2>3. LocalInv' /\ toDevice' \in Seq(Request)
    BY <2>1, <2>2, Reloads
  <2> QED
    BY <2>1, <2>3 DEF WireInv, WireType, RemoteKnows
<1>11. CASE OpenPage \/ ClosePage \/ pluginsChanged
  BY <1>11, PageKeeps
<1> QED
  BY <1>3, <1>4, <1>5, <1>6, <1>7, <1>8, <1>9, <1>10, <1>11 DEF Next

LEMMA Invariance == Spec => []IInv
BY InitInv, NextInv, PTL DEF Spec

(* Every variable keeps its type: the packets and requests on the wire are *)
(* those that the two devices can write, and of a player only what one can *)
(* be is known.                                                            *)
THEOREM TypeCorrectness == Spec => []TypeOK
<1>1. IInv => TypeOK
  BY TypeSplits DEF IInv, LocalInv, WireInv
<1> QED
  BY <1>1, Invariance, PTL

(* data() finds a player for every row, except of a row whose removal is   *)
(* being signalled; and the rows are those of the plugin's players, which  *)
(* the page hears of (setPlugin, playerAdded, playerRemoved,               *)
(* pluginDestroyed).                                                       *)
THEOREM EveryRowHasItsPlayer == Spec => []RowsHavePlayers
<1>1. IInv => RowsHavePlayers
  BY DEF IInv, LocalInv, Rows
<1> QED
  BY <1>1, Invariance, PTL

(* The cache of DeviceApi is dropped before the page is told, so what the  *)
(* page shows is right as soon as D-Bus has nothing more to deliver.       *)
THEOREM PageFollowsPlugin == Spec => []DeviceApiCurrent
<1>1. IInv => DeviceApiCurrent
  BY DEF IInv, LocalInv
<1> QED
  BY <1>1, Invariance, PTL

(* With nothing under way in either direction the plugin knows the players *)
(* of the device as they are: whatever list or status was lost with the    *)
(* plugin or crossed a command, one that makes up for it was asked for and *)
(* comes last (receivePacket, requestPlayerList, requestPlayerStatus).     *)
THEOREM PluginFollowsDevice == Spec => []PlayersFollowDevice
<1>1. Init => FollowInv
  BY NobodyKnown, PlayersAssumption DEF Init, FollowInv
<1>2. IInv /\ FollowInv /\ [Next]_vars => FollowInv'
  BY NextFollows
<1>3. IInv /\ FollowInv => PlayersFollowDevice
  <2>. SUFFICES ASSUME IInv, FollowInv, loaded, toDevice = <<>>, fromDevice = <<>>, NEW p \in Player
                PROVE  /\ m_players[p] = None <=> remote[p] = None
                       /\ remote[p] # None => \A f \in Field :
                            m_players[p][f] = IF f = "pos" /\ p \in Spotify THEN -1 ELSE remote[p][f]
    BY DEF PlayersFollowDevice
  <2>1. ~ListAsked /\ ~Asked("status", p) /\ ~Asked("SetPosition", p)
    BY DEF ListAsked, Asked
  <2>2. m_players[p] = None <=> remote[p] = None
    BY <2>1 DEF FollowInv, ListRight, Known, loaded
  <2>3. ASSUME remote[p] # None, NEW f \in Field, f = "pos" => p \notin Spotify
        PROVE  m_players[p][f] = remote[p][f]
    <3>1. Lasts(p)
      BY <2>2, <2>3 DEF Lasts
    <3>2. FieldRight(p, f)
      BY <2>1, <2>3, <3>1 DEF FollowInv, StatusRight
    <3>. QED BY <2>1, <3>2 DEF FieldRight
  <2>4. remote[p] # None /\ p \in Spotify => m_players[p]["pos"] = -1
    BY <2>2 DEF FollowInv
  <2>. QED BY <2>2, <2>3, <2>4
<1>. QED BY <1>1, <1>2, <1>3, Invariance, PTL DEF Spec

-----------------------------------------------------------------------------
(* AlbumArt.                                                               *)

USE AlbumArtAssumption

Signals == {"ok", "error", "destroyed"}

Response == [url: Urls \cup {NoUrl}, job: BOOLEAN, inbox: Seq(Signals),
             result: {"free", "waiting", "error", "destroyed"} \cup Contents]

(* What may be shown as the picture of u.                                  *)
Picture(content, u) == content = "whole" \/ (content = "cut" /\ u \notin sized)

(* The file of u is there: no job touches it, now or after a reload.       *)
Kept(u) == file[u] # "none" /\ (plugin = "loaded" => u \in m_diskCache)

(* The jobs: none without the plugin; each has its transfer or its answer  *)
(* to come, is not in the cache, and may follow its redirects.             *)
JobsInv ==
  /\ plugin # "loaded" => m_fetching = {} /\ gained = {}
  /\ m_fetching \cap m_diskCache = {}
  /\ \A u \in Urls :
       /\ transfer[u] => u \in m_fetching
       /\ u \in m_fetching => /\ transfer[u] \/ u \in asked
                              /\ m_redirectCount[u] <= MaxRedirects
  /\ \A u \in gained : Picture(file[u], u)

(* A response that waits has a job that is to finish, or a signal: and if  *)
(* that is the good one, the picture is there, and nobody touches it, now  *)
(* or once it is shown.                                                    *)
ResponseInv(r) ==
  LET x == response[r] IN
  /\ x.result \in Contents => x.url \in Urls /\ Picture(x.result, x.url) /\ Kept(x.url)
  /\ x.result = "waiting" =>
       /\ x.url \in Urls
       /\ x.inbox = <<>> => x.job /\ x.url \in m_fetching
       /\ x.inbox # <<>> /\ Head(x.inbox) = "ok" =>
            Picture(file[x.url], x.url) /\ Kept(x.url)

ArtInv ==
  /\ ArtTypeOK /\ response \in [Responses -> Response]
  /\ JobsInv
  /\ \A r \in Responses : ResponseInv(r)

-----------------------------------------------------------------------------
(* A job begins or ends.                                                   *)

(* The job of u may touch its file, its answer, its redirects and what is  *)
(* known of its size only.                                                 *)
OnlyOf(u) ==
  /\ plugin = "loaded" /\ plugin' = "loaded"
  /\ u \in Urls \ m_diskCache
  /\ file' \in [Urls -> Contents \cup {"none"}]
  /\ m_redirectCount' \in [Urls -> 0..MaxRedirects + 1]
  /\ asked' \subseteq Urls /\ asked \ {u} \subseteq asked' /\ sized' \subseteq Urls
  /\ \A v \in Urls \ {u} : /\ file'[v] = file[v] /\ m_redirectCount'[v] = m_redirectCount[v]
                           /\ v \in sized' <=> v \in sized

(* What is said of another picture remains so.                             *)
LEMMA OthersStay ==
  ASSUME NEW u \in Urls, OnlyOf(u), NEW v \in Urls, v # u
  PROVE  /\ file'[v] = file[v] /\ m_redirectCount'[v] = m_redirectCount[v]
         /\ v \in asked => v \in asked'
         /\ \A content : Picture(content, v) => Picture(content, v)'
<1>1. file'[v] = file[v] /\ m_redirectCount'[v] = m_redirectCount[v]
  BY DEF OnlyOf
<1>2. v \in sized' <=> v \in sized
  BY DEF OnlyOf
<1>3. v \in asked => v \in asked'
  BY DEF OnlyOf
<1>4. \A content : Picture(content, v) => Picture(content, v)'
  BY <1>2 DEF Picture
<1>. QED BY <1>1, <1>3, <1>4

LEMMA KeptStays ==
  ASSUME NEW u \in Urls, OnlyOf(u), m_diskCache \subseteq m_diskCache',
         NEW v \in Urls, Kept(v)
  PROVE  /\ Kept(v)' /\ file'[v] = file[v]
         /\ \A content : Picture(content, v) => Picture(content, v)'
<1>1. plugin = "loaded" /\ plugin' = "loaded" /\ u \notin m_diskCache
  BY DEF OnlyOf
<1>2. v # u /\ v \in m_diskCache'
  BY <1>1 DEF Kept
<1>. QED BY <1>1, <1>2, OthersStay DEF Kept

(* A response that nothing is told, and whose job goes on, if it waits.    *)
LEMMA UntoldStays ==
  ASSUME NEW u \in Urls, OnlyOf(u), m_diskCache \subseteq m_diskCache',
         NEW r \in Responses, ResponseInv(r), response'[r] = response[r],
         response[r].result = "waiting" /\ response[r].inbox = <<>>
           => response[r].url \in m_fetching'
  PROVE  ResponseInv(r)'
<1>. DEFINE x == response[r]
<1>1. /\ x.result \in Contents =>
            x.url \in Urls /\ Picture(x.result, x.url)' /\ Kept(x.url)'
      /\ x.result = "waiting" /\ x.inbox # <<>> /\ Head(x.inbox) = "ok" =>
            x.url \in Urls /\ Picture(file[x.url], x.url)' /\ Kept(x.url)'
  <2>1. ASSUME NEW content, x.url \in Urls, Picture(content, x.url), Kept(x.url)
        PROVE  Picture(content, x.url)' /\ Kept(x.url)' /\ file'[x.url] = file[x.url]
    BY <2>1, KeptStays
  <2>2. CASE x.result \in Contents
    <3>1. x.url \in Urls /\ Picture(x.result, x.url) /\ Kept(x.url)
      BY <2>2 DEF ResponseInv
    <3>. QED BY <2>2, <3>1, KeptStays DEF Contents, Picture
  <2>3. CASE x.result = "waiting" /\ x.inbox # <<>> /\ Head(x.inbox) = "ok"
    <3>1. x.url \in Urls /\ Picture(file[x.url], x.url) /\ Kept(x.url)
      BY <2>3 DEF ResponseInv
    <3>. QED BY <2>3, <3>1, KeptStays DEF Contents, Picture
  <2>. QED BY <2>2, <2>3
<1>. QED BY <1>1 DEF ResponseInv

LEMMA FinishedKeepsJobs ==
  ASSUME ArtInv, NEW u \in Urls, NEW ok \in BOOLEAN, OnlyOf(u), Finished(u, ok),
         ok => Picture(file[u], u)'
  PROVE  /\ JobsInv'
         /\ m_fetching' \subseteq Urls /\ m_diskCache' \subseteq Urls /\ gained' \subseteq m_diskCache'
         /\ transfer' \in [Urls -> BOOLEAN]
<1>1. /\ ArtTypeOK /\ JobsInv /\ plugin' = "loaded" /\ u \notin m_diskCache
      /\ m_fetching' = m_fetching \ {u}
      /\ transfer' = [transfer EXCEPT ![u] = FALSE]
      /\ m_diskCache' = IF ok THEN m_diskCache \cup {u} ELSE m_diskCache
      /\ gained' = IF ok THEN gained \cup {u} ELSE gained
  BY DEF ArtInv, OnlyOf, Finished
<1>2. /\ m_fetching' \subseteq Urls /\ m_diskCache' \subseteq Urls /\ gained' \subseteq m_diskCache'
      /\ transfer' \in [Urls -> BOOLEAN]
  BY <1>1 DEF ArtTypeOK
<1>3. m_fetching' \cap m_diskCache' = {}
  BY <1>1 DEF JobsInv
<1>4. ASSUME NEW v \in Urls
      PROVE  /\ transfer'[v] => v \in m_fetching'
             /\ v \in m_fetching' => /\ transfer'[v] \/ v \in asked'
                                     /\ m_redirectCount'[v] <= MaxRedirects
  <2>1. CASE v = u
    BY <1>1, <2>1 DEF ArtTypeOK
  <2>2. CASE v # u
    BY <1>1, <2>2, OthersStay DEF ArtTypeOK, JobsInv
  <2>. QED BY <2>1, <2>2
<1>5. ASSUME NEW v \in gained' PROVE Picture(file[v], v)'
  <2>1. CASE v \in gained
    <3>1. v \in Urls /\ v # u
      BY <1>1, <2>1 DEF ArtTypeOK
    <3>2. Picture(file[v], v)
      BY <1>1, <2>1 DEF JobsInv
    <3>. QED BY <3>1, <3>2, OthersStay DEF Picture
  <2>2. CASE v \notin gained
    BY <1>1, <1>5, <2>2
  <2>. QED BY <2>1, <2>2
<1>. QED BY <1>1, <1>2, <1>3, <1>4, <1>5 DEF JobsInv

LEMMA OpensKeepsJobs ==
  ASSUME ArtInv, NEW u \in Urls, OnlyOf(u), m_redirectCount'[u] <= MaxRedirects,
         m_fetching' = m_fetching \cup {u}, UNCHANGED <<m_diskCache, gained>>,
         transfer' \in [Urls -> BOOLEAN], transfer'[u] \/ u \in asked',
         \A v \in Urls \ {u} : transfer'[v] = transfer[v]
  PROVE  JobsInv' /\ m_fetching' \subseteq Urls
<1>1. ArtTypeOK /\ JobsInv /\ plugin' = "loaded" /\ u \notin m_diskCache
  BY DEF ArtInv, OnlyOf
<1>2. m_fetching' \cap m_diskCache' = {}
  BY <1>1 DEF JobsInv
<1>3. ASSUME NEW v \in Urls
      PROVE  /\ transfer'[v] => v \in m_fetching'
             /\ v \in m_fetching' => /\ transfer'[v] \/ v \in asked'
                                     /\ m_redirectCount'[v] <= MaxRedirects
  <2>1. CASE v = u
    BY <1>1, <2>1
  <2>2. CASE v # u
    BY <1>1, <2>2, OthersStay DEF JobsInv
  <2>. QED BY <2>1, <2>2
<1>4. ASSUME NEW v \in gained PROVE Picture(file[v], v)'
  <2>1. v \in Urls /\ v # u /\ Picture(file[v], v)
    BY <1>1 DEF ArtTypeOK, JobsInv
  <2>. QED BY <2>1, OthersStay DEF Picture
<1>. QED BY <1>1, <1>2, <1>3, <1>4 DEF JobsInv, ArtTypeOK

(* The responses, when a job of theirs begins or goes on ...               *)
LEMMA OpensKeepsResponses ==
  ASSUME ArtInv, NEW u \in Urls, OnlyOf(u), UNCHANGED <<response, m_diskCache>>,
         m_fetching \subseteq m_fetching'
  PROVE  \A r \in Responses : ResponseInv(r)'
<1>. SUFFICES ASSUME NEW r \in Responses PROVE ResponseInv(r)'
  OBVIOUS
<1>1. ResponseInv(r)
  BY DEF ArtInv
<1>2. response[r].result = "waiting" /\ response[r].inbox = <<>> => response[r].url \in m_fetching'
  BY <1>1 DEF ResponseInv
<1>. QED BY <1>1, <1>2, UntoldStays

(* ... and when one ends.                                                  *)
LEMMA FinishedKeepsResponses ==
  ASSUME ArtInv, NEW u \in Urls, NEW ok \in BOOLEAN, OnlyOf(u), Finished(u, ok),
         ok => Picture(file[u], u)'
  PROVE  response' \in [Responses -> Response] /\ \A r \in Responses : ResponseInv(r)'
<1>. DEFINE told(r) == response[r].url = u /\ response[r].result = "waiting"
                       /\ response[r].inbox = <<>>
            signal == IF ok THEN "ok" ELSE "error"
<1>1. /\ \A r \in Responses : response[r] \in Response
      /\ response' = [r \in Responses |->
           IF told(r) THEN [response[r] EXCEPT !.inbox = <<signal>>] ELSE response[r]]
  BY DEF ArtInv, Finished
<1>2. <<signal>> \in Seq(Signals) /\ <<signal>> # <<>> /\ Head(<<signal>>) = signal
  BY DEF Signals
<1>. HIDE DEF signal
<1>3. response' \in [Responses -> Response]
  BY <1>1, <1>2 DEF Response
<1>. HIDE DEF told
<1>4. ASSUME NEW r \in Responses PROVE ResponseInv(r)'
  <2>1. ResponseInv(r)
    BY DEF ArtInv
  <2>2. CASE told(r)
    <3>1. /\ response'[r].url = u /\ response'[r].result = "waiting"
          /\ response'[r].inbox = <<signal>>
      BY <1>1, <2>2 DEF told, Response
    <3>2. Head(response'[r].inbox) = "ok" => ok
      BY <1>2, <3>1 DEF signal
    <3>3. ok => u \in m_diskCache'
      BY DEF Finished
    <3>4. ok => Picture(file[u], u)' /\ Kept(u)'
      BY <3>3 DEF Picture, Kept
    <3>. QED BY <1>2, <3>1, <3>2, <3>4 DEF ResponseInv, Contents
  <2>3. CASE ~told(r)
    <3>1. response'[r] = response[r]
      BY <1>1, <2>3
    <3>2. ~(response[r].url = u /\ response[r].result = "waiting" /\ response[r].inbox = <<>>)
      BY <2>3 DEF told
    <3>3. m_fetching' = m_fetching \ {u} /\ m_diskCache \subseteq m_diskCache'
      BY DEF Finished
    <3>4. response[r].result = "waiting" /\ response[r].inbox = <<>>
            => response[r].url \in m_fetching'
      BY <2>1, <3>2, <3>3 DEF ResponseInv
    <3>. QED BY <2>1, <3>1, <3>3, <3>4, UntoldStays
  <2>. QED BY <2>2, <2>3
<1>. QED BY <1>3, <1>4

-----------------------------------------------------------------------------
(* The steps.                                                              *)


PlayerTypes ==
  /\ m_supportAlbumArtPayload \in BOOLEAN /\ player \in BOOLEAN
  /\ m_remoteAlbumArtUrl \in Urls \cup {NoUrl}

(* A job of u begins, goes on or ends, without a picture or with one.      *)
LEMMA EndKeepsInv ==
  ASSUME ArtInv, NEW u \in Urls, NEW ok \in BOOLEAN, PlayerTypes', OnlyOf(u),
         Finished(u, ok), ok => Picture(file[u], u)'
  PROVE  ArtInv'
<1>1. /\ JobsInv'
      /\ m_fetching' \subseteq Urls /\ m_diskCache' \subseteq Urls /\ gained' \subseteq m_diskCache'
      /\ transfer' \in [Urls -> BOOLEAN]
  BY FinishedKeepsJobs
<1>2. response' \in [Responses -> Response] /\ \A r \in Responses : ResponseInv(r)'
  BY FinishedKeepsResponses
<1>3. ArtTypeOK'
  <2>1. (\A r \in Responses :
           /\ response[r].url \in Urls \cup {NoUrl} /\ response[r].job \in BOOLEAN
           /\ response[r].inbox \in Seq({"ok", "error", "destroyed"})
           /\ response[r].result \in {"free", "waiting", "error", "destroyed"} \cup Contents)'
    BY <1>2 DEF Response, Signals
  <2>. QED BY <1>1, <2>1 DEF ArtTypeOK, PlayerTypes, OnlyOf
<1>. QED BY <1>1, <1>2, <1>3 DEF ArtInv

LEMMA OpenKeepsInv ==
  ASSUME ArtInv, NEW u \in Urls, PlayerTypes', OnlyOf(u),
         m_redirectCount'[u] <= MaxRedirects,
         m_fetching' = m_fetching \cup {u}, UNCHANGED <<m_diskCache, gained, response>>,
         transfer' \in [Urls -> BOOLEAN], transfer'[u] \/ u \in asked',
         \A v \in Urls \ {u} : transfer'[v] = transfer[v]
  PROVE  ArtInv'
<1>1. JobsInv' /\ m_fetching' \subseteq Urls
  BY OpensKeepsJobs
<1>2. \A r \in Responses : ResponseInv(r)'
  BY OpensKeepsResponses
<1>3. ArtTypeOK' /\ response' \in [Responses -> Response]
  BY <1>1 DEF ArtInv, ArtTypeOK, PlayerTypes, OnlyOf
<1>. QED BY <1>1, <1>2, <1>3 DEF ArtInv

LEMMA GotDataKeepsInv ==
  ASSUME ArtInv, NEW u \in Urls, PlayerTypes', plugin = "loaded", plugin' = "loaded",
         u \notin m_diskCache, NEW known \in BOOLEAN, gotData(u, known),
         m_redirectCount' \in [Urls -> 0..MaxRedirects + 1], m_redirectCount'[u] <= MaxRedirects,
         \A v \in Urls \ {u} : m_redirectCount'[v] = m_redirectCount[v],
         asked' \subseteq Urls, asked \ {u} \subseteq asked'
  PROVE  ArtInv'
<1>0. ArtTypeOK
  BY DEF ArtInv
<1>1. CASE GotDataOpens(u, known)
  <2>1. OnlyOf(u)
    BY <1>0, <1>1 DEF ArtTypeOK, OnlyOf, GotDataOpens, Contents
  <2>2. /\ transfer' \in [Urls -> BOOLEAN] /\ transfer'[u]
        /\ \A v \in Urls \ {u} : transfer'[v] = transfer[v]
        /\ m_fetching' = m_fetching \cup {u} /\ UNCHANGED <<m_diskCache, gained, response>>
    BY <1>0, <1>1 DEF ArtTypeOK, GotDataOpens
  <2>. QED BY <2>1, <2>2, OpenKeepsInv
<1>2. CASE GotDataFails(u)
  <2>1. OnlyOf(u) /\ Finished(u, FALSE)
    BY <1>0, <1>2 DEF ArtTypeOK, OnlyOf, GotDataFails, Finished
  <2>. QED BY <2>1, EndKeepsInv
<1>. QED BY <1>1, <1>2 DEF gotData

LEMMA FailedKeepsInv ==
  ASSUME ArtInv, NEW u \in Urls, PlayerTypes', plugin = "loaded", plugin' = "loaded",
         u \notin m_diskCache, failed(u),
         m_redirectCount' \in [Urls -> 0..MaxRedirects + 1],
         \A v \in Urls \ {u} : m_redirectCount'[v] = m_redirectCount[v],
         asked' \subseteq Urls, asked \ {u} \subseteq asked'
  PROVE  ArtInv'
<1>1. OnlyOf(u) /\ Finished(u, FALSE)
  BY DEF ArtInv, ArtTypeOK, OnlyOf, failed, Finished, Contents
<1>. QED BY <1>1, EndKeepsInv

(* What leaves jobs, files and responses alone.                            *)
LEMMA IdleKeepsInv ==
  ASSUME ArtInv, PlayerTypes', UNCHANGED <<plugin, jobVars, file, asked, response>>
  PROVE  ArtInv'
<1>1. ArtTypeOK' /\ JobsInv' /\ response' \in [Responses -> Response]
  BY DEF ArtInv, ArtTypeOK, PlayerTypes, JobsInv, Picture, jobVars
<1>2. ASSUME NEW r \in Responses PROVE ResponseInv(r)'
  BY DEF ArtInv, ResponseInv, Kept, Picture, jobVars
<1>. QED BY <1>1, <1>2 DEF ArtInv


LEMMA PlayerPacketKeepsInv ==
  ASSUME ArtInv, NEW u \in Urls \cup {NoUrl}, NEW support \in BOOLEAN, PlayerPacket(u, support)
  PROVE  ArtInv'
<1>1. ArtTypeOK /\ JobsInv
  BY DEF ArtInv
<1>2. /\ PlayerTypes' /\ plugin = "loaded" /\ plugin' = "loaded" /\ player' = player
      /\ m_supportAlbumArtPayload' = support
  BY <1>1 DEF PlayerPacket, PlayerTypes, ArtTypeOK
<1>. DEFINE url == m_remoteAlbumArtUrl'
<1>3. CASE UNCHANGED <<jobVars, file, asked, response>>
  BY <1>2, <1>3, IdleKeepsInv
<1>4. CASE /\ support /\ player /\ url # NoUrl /\ url \notin m_diskCache \cup m_fetching
           /\ startFetching(url)
  <2>1. url \in Urls \ m_diskCache
    BY <1>2, <1>4 DEF PlayerTypes
  <2>. HIDE DEF url
  <2>2. m_redirectCount' = [m_redirectCount EXCEPT ![url] = 0]
    BY <1>4 DEF startFetching
  <2>3. /\ m_redirectCount' \in [Urls -> 0..MaxRedirects + 1] /\ m_redirectCount'[url] <= MaxRedirects
        /\ \A v \in Urls \ {url} : m_redirectCount'[v] = m_redirectCount[v]
    <3>1. 0 \in 0..MaxRedirects + 1 /\ 0 <= MaxRedirects
      OBVIOUS
    <3>. QED BY <1>1, <2>1, <2>2, <3>1 DEF ArtTypeOK
  <2>4. CASE url \in LocalUrls
    <3>1. /\ m_fetching' = m_fetching \cup {url} /\ asked' = asked \cup {url}
          /\ UNCHANGED <<m_diskCache, transfer, sized, gained, file, response>>
      BY <1>2, <1>4, <2>4 DEF startFetching, url
    <3>2. OnlyOf(url)
      BY <1>1, <1>2, <2>1, <2>3, <3>1 DEF OnlyOf, ArtTypeOK
    <3>. QED BY <1>1, <1>2, <2>1, <2>3, <3>1, <3>2, OpenKeepsInv DEF ArtTypeOK
  <2>5. CASE url \notin LocalUrls
    <3>1. gotData(url, FALSE) /\ UNCHANGED asked
      BY <1>4, <2>5 DEF startFetching
    <3>2. asked' \subseteq Urls /\ asked \ {url} \subseteq asked'
      BY <1>1, <3>1 DEF ArtTypeOK
    <3>. QED BY <1>2, <2>1, <2>3, <3>1, <3>2, GotDataKeepsInv
  <2>. QED BY <2>4, <2>5
<1>. QED BY <1>3, <1>4 DEF PlayerPacket, startFetching

LEMMA PlayerListKeepsInv ==
  ASSUME ArtInv, NEW present \in BOOLEAN, PlayerList(present)
  PROVE  ArtInv'
<1>1. PlayerTypes' /\ UNCHANGED <<plugin, jobVars, file, asked, response>>
  BY DEF ArtInv, ArtTypeOK, PlayerList, PlayerTypes
<1>. QED BY <1>1, IdleKeepsInv

(* Without a job that waits for u, nobody minds that it is not asked for.  *)
LEMMA AnswerIgnored ==
  ASSUME ArtInv, NEW u \in Urls, PlayerTypes', u \notin m_fetching \/ transfer[u],
         asked' = asked \ {u}, UNCHANGED <<plugin, jobVars, file, response>>
  PROVE  ArtInv'
<1>1. ArtTypeOK' /\ JobsInv' /\ response' \in [Responses -> Response]
  BY DEF ArtInv, ArtTypeOK, PlayerTypes, JobsInv, Picture, jobVars
<1>2. ASSUME NEW r \in Responses PROVE ResponseInv(r)'
  BY DEF ArtInv, ResponseInv, Kept, Picture, jobVars
<1>. QED BY <1>1, <1>2 DEF ArtInv

LEMMA EndFetchingKeepsInv ==
  ASSUME ArtInv, NEW u \in Urls, NEW payload \in BOOLEAN, NEW known \in BOOLEAN,
         endFetching(u, payload, known)
  PROVE  ArtInv'
<1>1. ArtTypeOK /\ JobsInv
  BY DEF ArtInv
<1>2. /\ PlayerTypes' /\ plugin = "loaded" /\ plugin' = "loaded" /\ asked' = asked \ {u}
  BY <1>1 DEF endFetching, playerVars, PlayerTypes, ArtTypeOK
<1>3. CASE u \notin m_fetching \/ transfer[u]
  <2>1. UNCHANGED <<plugin, jobVars, file, response>>
    BY <1>3 DEF endFetching
  <2>. QED BY <1>2, <1>3, <2>1, AnswerIgnored
<1>4. CASE u \in m_fetching /\ ~transfer[u]
  <2>1. gotData(u, known) /\ UNCHANGED m_redirectCount
    BY <1>4 DEF endFetching, gotData
  <2>2. u \notin m_diskCache /\ m_redirectCount[u] <= MaxRedirects
    BY <1>1, <1>4 DEF JobsInv
  <2>3. asked' \subseteq Urls /\ asked \ {u} \subseteq asked'
    BY <1>1, <1>2 DEF ArtTypeOK
  <2>. QED BY <1>1, <1>2, <2>1, <2>2, <2>3, GotDataKeepsInv DEF ArtTypeOK
<1>. QED BY <1>3, <1>4

(* A transfer that goes on belongs to a job, of a plugin that is there.    *)
LEMMA Transferring ==
  ASSUME ArtInv, NEW u \in Urls, transfer[u]
  PROVE  plugin = "loaded" /\ u \in m_fetching /\ u \notin m_diskCache
BY DEF ArtInv, JobsInv

LEMMA TransferMovesKeepsInv ==
  ASSUME ArtInv, NEW u \in Urls, TransferMoves(u)
  PROVE  ArtInv'
<1>1. /\ ArtTypeOK /\ transfer[u] /\ file' = [file EXCEPT ![u] = "part"]
      /\ UNCHANGED <<plugin, playerVars, jobVars, asked, response>>
  BY DEF ArtInv, TransferMoves
<1>2. plugin = "loaded" /\ u \in m_fetching /\ u \notin m_diskCache
  BY <1>1, Transferring
<1>3. PlayerTypes'
  BY <1>1 DEF ArtTypeOK, PlayerTypes, playerVars
<1>4. OnlyOf(u) /\ m_redirectCount'[u] <= MaxRedirects
  BY <1>1, <1>2 DEF ArtInv, JobsInv, ArtTypeOK, OnlyOf, jobVars, Contents
<1>5. /\ m_fetching' = m_fetching \cup {u} /\ UNCHANGED <<m_diskCache, gained, response>>
      /\ transfer' \in [Urls -> BOOLEAN] /\ transfer' = transfer
  BY <1>1, <1>2 DEF ArtTypeOK, jobVars
<1>. QED BY <1>1, <1>3, <1>4, <1>5, OpenKeepsInv

LEMMA TransferEndsKeepsInv ==
  ASSUME ArtInv, NEW u \in Urls, TransferEnds(u)
  PROVE  ArtInv'
<1>1. /\ ArtTypeOK /\ transfer[u] /\ PlayerTypes' /\ UNCHANGED <<plugin, asked>>
  BY DEF ArtInv, ArtTypeOK, TransferEnds, TransferFails, TransferSucceeds, Redirected, playerVars,
         PlayerTypes
<1>2. plugin = "loaded" /\ plugin' = "loaded" /\ u \notin m_diskCache
      /\ asked' \subseteq Urls /\ asked \ {u} \subseteq asked'
  BY <1>1, Transferring DEF ArtTypeOK
<1>3. CASE TransferFails(u)
  BY <1>1, <1>2, <1>3, FailedKeepsInv DEF TransferFails, ArtTypeOK
<1>4. ASSUME NEW content \in {"whole", "cut"}, TransferSucceeds(u, content)
      PROVE  ArtInv'
  <2>1. /\ file' = [file EXCEPT ![u] = content] /\ Finished(u, TRUE) /\ UNCHANGED m_redirectCount
        /\ content = "cut" => u \notin sized
    BY <1>4 DEF TransferSucceeds
  <2>2. OnlyOf(u) /\ Picture(file[u], u)'
    BY <1>1, <1>2, <2>1 DEF OnlyOf, ArtTypeOK, Contents, Picture, Finished
  <2>. QED BY <1>1, <2>1, <2>2, EndKeepsInv
<1>5. CASE Redirected(u)
  <2>1. /\ m_redirectCount' = [m_redirectCount EXCEPT ![u] = @ + 1]
        /\ IF m_redirectCount[u] + 1 > MaxRedirects THEN failed(u) ELSE gotData(u, FALSE)
    BY <1>5 DEF Redirected
  <2>2. m_redirectCount[u] \in Nat /\ m_redirectCount[u] <= MaxRedirects
    BY <1>1, Transferring DEF ArtInv, JobsInv, ArtTypeOK
  <2>3. m_redirectCount[u] + 1 \in 0..MaxRedirects + 1
    BY <2>2
  <2>4. /\ m_redirectCount' \in [Urls -> 0..MaxRedirects + 1]
        /\ m_redirectCount'[u] = m_redirectCount[u] + 1
        /\ \A v \in Urls \ {u} : m_redirectCount'[v] = m_redirectCount[v]
    BY <1>1, <2>1, <2>3 DEF ArtTypeOK
  <2>5. CASE m_redirectCount[u] + 1 > MaxRedirects
    BY <1>1, <1>2, <2>1, <2>4, <2>5, FailedKeepsInv
  <2>6. CASE ~(m_redirectCount[u] + 1 > MaxRedirects)
    <3>1. m_redirectCount'[u] <= MaxRedirects
      BY <2>2, <2>4, <2>6
    <3>. QED BY <1>1, <1>2, <2>1, <2>4, <2>6, <3>1, GotDataKeepsInv
  <2>. QED BY <2>5, <2>6
<1>. QED BY <1>3, <1>4, <1>5 DEF TransferEnds


-----------------------------------------------------------------------------
(* The plugin comes and goes, and the image thread.                        *)

LEMMA NoPluginKeepsInv ==
  ASSUME ArtInv, plugin' \in {"gone", "crashed"}, NoPlugin,
         response' \in [Responses -> Response], \A r \in Responses : ResponseInv(r)'
  PROVE  ArtInv'
<1>1. 0 \in 0..MaxRedirects + 1
  OBVIOUS
<1>2. ArtTypeOK'
  <2>1. (\A r \in Responses :
           /\ response[r].url \in Urls \cup {NoUrl} /\ response[r].job \in BOOLEAN
           /\ response[r].inbox \in Seq({"ok", "error", "destroyed"})
           /\ response[r].result \in {"free", "waiting", "error", "destroyed"} \cup Contents)'
    BY DEF Response, Signals
  <2>. QED BY <1>1, <2>1 DEF ArtInv, ArtTypeOK, NoPlugin
<1>3. JobsInv'
  BY DEF JobsInv, NoPlugin
<1>. QED BY <1>2, <1>3 DEF ArtInv

LEMMA AppendToInbox ==
  ASSUME NEW s \in Seq(Signals), NEW x \in Signals
  PROVE  /\ Append(s, x) \in Seq(Signals) /\ Append(s, x) # <<>>
         /\ s = <<>> => Head(Append(s, x)) = x
         /\ s # <<>> => Head(Append(s, x)) = Head(s)
OBVIOUS

LEMMA PluginDeletedKeepsInv ==
  ASSUME ArtInv, PluginDeleted
  PROVE  ArtInv'
<1>1. /\ \A r \in Responses : response[r] \in Response
      /\ plugin' = "gone" /\ NoPlugin /\ file' = file /\ sized' = sized
      /\ response' = [r \in Responses |->
           IF response[r].job
           THEN [response[r] EXCEPT !.job = FALSE, !.inbox = Append(@, "destroyed")]
           ELSE response[r]]
  BY DEF ArtInv, PluginDeleted, NoPlugin
<1>2. ASSUME NEW r \in Responses
      PROVE  /\ Append(response[r].inbox, "destroyed") \in Seq(Signals)
             /\ Append(response[r].inbox, "destroyed") # <<>>
             /\ response[r].inbox = <<>> => Head(Append(response[r].inbox, "destroyed")) = "destroyed"
             /\ response[r].inbox # <<>> =>
                  Head(Append(response[r].inbox, "destroyed")) = Head(response[r].inbox)
  <2>1. response[r].inbox \in Seq(Signals) /\ "destroyed" \in Signals
    BY <1>1 DEF Response, Signals
  <2>. QED BY <2>1, AppendToInbox
<1>3. response' \in [Responses -> Response]
  BY <1>1, <1>2 DEF Response
<1>4. ASSUME NEW r \in Responses PROVE ResponseInv(r)'
  <2>1. ResponseInv(r)
    BY DEF ArtInv
  <2>2. CASE response[r].job
    <3>1. /\ response'[r].url = response[r].url /\ response'[r].result = response[r].result
          /\ response'[r].inbox = Append(response[r].inbox, "destroyed")
      BY <1>1, <2>2 DEF Response
    <3>2. /\ response'[r].inbox # <<>>
          /\ Head(response'[r].inbox) = "ok" =>
               response[r].inbox # <<>> /\ Head(response[r].inbox) = "ok"
      BY <1>2, <3>1
    <3>3. \A content, v : /\ Picture(content, v) => Picture(content, v)'
                          /\ Kept(v) => Kept(v)'
      BY <1>1 DEF Picture, Kept
    <3>4. /\ response[r].result \in Contents =>
               /\ response[r].url \in Urls /\ Kept(response[r].url)
               /\ Picture(response[r].result, response[r].url)
          /\ response[r].result = "waiting" =>
               /\ response[r].url \in Urls
               /\ response[r].inbox # <<>> /\ Head(response[r].inbox) = "ok" =>
                    Picture(file[response[r].url], response[r].url) /\ Kept(response[r].url)
      BY <2>1 DEF ResponseInv
    <3>. QED BY <1>1, <3>1, <3>2, <3>3, <3>4 DEF ResponseInv
  <2>3. CASE ~response[r].job
    <3>1. response'[r] = response[r]
      BY <1>1, <2>3
    <3>. QED BY <1>1, <2>1, <2>3, <3>1 DEF ResponseInv, Kept, Picture
  <2>. QED BY <2>2, <2>3
<1>. QED BY <1>1, <1>3, <1>4, NoPluginKeepsInv

LEMMA FreeIsAResponse ==
  /\ Free \in Response /\ Free.url = NoUrl /\ Free.inbox = <<>> /\ Free.result = "free"
  /\ Free.result \notin Contents /\ Free.result # "waiting"
BY DEF Free, Response, Contents

LEMMA CrashKeepsInv ==
  ASSUME ArtInv, Crash
  PROVE  ArtInv'
<1>1. response' = [r \in Responses |-> Free] /\ NoPlugin /\ plugin' = "crashed"
  BY DEF Crash
<1>2. response' \in [Responses -> Response] /\ \A r \in Responses : ResponseInv(r)'
  BY <1>1, FreeIsAResponse DEF ResponseInv
<1>. QED BY <1>1, <1>2, NoPluginKeepsInv

(* What counts as cached when the plugin is loaded again.                  *)
LEMMA PluginLoadedKeepsInv ==
  ASSUME ArtInv, PluginLoaded
  PROVE  ArtInv'
<1>1. /\ ArtTypeOK /\ JobsInv /\ m_fetching = {} /\ gained = {} /\ plugin' = "loaded"
      /\ m_diskCache' = {u \in Urls : file[u] # "none"}
      /\ UNCHANGED <<playerVars, m_fetching, transfer, sized, m_redirectCount, gained, file, asked,
                     response>>
  BY DEF ArtInv, JobsInv, PluginLoaded
<1>2. ArtTypeOK' /\ response' \in [Responses -> Response]
  BY <1>1 DEF ArtInv, ArtTypeOK, playerVars
<1>3. JobsInv'
  BY <1>1 DEF JobsInv
<1>4. ASSUME NEW r \in Responses PROVE ResponseInv(r)'
  <2>1. ResponseInv(r) /\ response'[r] = response[r] /\ file' = file /\ sized' = sized
    BY <1>1 DEF ArtInv
  <2>2. ASSUME NEW v \in Urls, Kept(v) PROVE Kept(v)'
    BY <1>1, <2>2 DEF Kept
  <2>3. \A content, v : Picture(content, v) => Picture(content, v)'
    BY <2>1 DEF Picture
  <2>4. ~(response[r].result = "waiting" /\ response[r].inbox = <<>>)
    BY <1>1, <2>1 DEF ResponseInv
  <2>. QED BY <2>1, <2>2, <2>3, <2>4 DEF ResponseInv
<1>. QED BY <1>2, <1>3, <1>4 DEF ArtInv

(* One response changes: the others stay as they were.                     *)
LEMMA ResponseChanges ==
  ASSUME ArtInv, NEW r \in Responses, NEW x \in Response,
         response' = [response EXCEPT ![r] = x], ResponseInv(r)',
         UNCHANGED <<plugin, playerVars, jobVars, file, asked>>
  PROVE  ArtInv'
<1>1. response' \in [Responses -> Response]
  BY DEF ArtInv
<1>2. ArtTypeOK'
  <2>1. (\A v \in Responses :
           /\ response[v].url \in Urls \cup {NoUrl} /\ response[v].job \in BOOLEAN
           /\ response[v].inbox \in Seq({"ok", "error", "destroyed"})
           /\ response[v].result \in {"free", "waiting", "error", "destroyed"} \cup Contents)'
    BY <1>1 DEF Response, Signals
  <2>. QED BY <2>1 DEF ArtInv, ArtTypeOK, playerVars, jobVars
<1>3. JobsInv'
  BY DEF ArtInv, JobsInv, Picture, jobVars
<1>4. ASSUME NEW v \in Responses PROVE ResponseInv(v)'
  <2>1. CASE v = r
    BY <2>1
  <2>2. CASE v # r
    <3>1. ResponseInv(v) /\ response'[v] = response[v]
      BY <2>2 DEF ArtInv
    <3>. QED BY <3>1 DEF ResponseInv, Kept, Picture, jobVars
  <2>. QED BY <2>1, <2>2
<1>. QED BY <1>1, <1>2, <1>3, <1>4 DEF ArtInv

LEMMA RequestKeepsInv ==
  ASSUME ArtInv, NEW r \in Responses, NEW u \in Urls, requestImageResponse(r, u)
  PROVE  ArtInv'
<1>. DEFINE x == [url |-> u, job |-> TRUE, inbox |-> <<>>, result |-> "waiting"]
<1>1. x \in Response /\ "waiting" \notin Contents
  BY DEF Response, Contents
<1>2. response'[r] = x /\ u \in m_fetching /\ UNCHANGED <<plugin, jobVars, file>>
  BY DEF requestImageResponse, ArtInv
<1>3. ResponseInv(r)'
  BY <1>1, <1>2 DEF ResponseInv, jobVars
<1>. QED BY <1>1, <1>3, ResponseChanges DEF requestImageResponse

LEMMA DiscardKeepsInv ==
  ASSUME ArtInv, NEW r \in Responses, Discard(r)
  PROVE  ArtInv'
<1>1. response'[r] = Free
  BY DEF Discard, ArtInv
<1>2. ResponseInv(r)'
  BY <1>1, FreeIsAResponse DEF ResponseInv
<1>. QED BY <1>2, FreeIsAResponse, ResponseChanges DEF Discard

(* A queued signal decides what is shown only if it is the first.          *)
LEMMA OnFinishedKeepsInv ==
  ASSUME ArtInv, NEW r \in Responses, onFinished(r)
  PROVE  ArtInv'
<1>. DEFINE old == response[r]
            result == IF old.result # "waiting" THEN old.result
                      ELSE IF Head(old.inbox) = "ok" THEN file[old.url] ELSE Head(old.inbox)
            x == [old EXCEPT !.inbox = Tail(old.inbox), !.result = result]
<1>1. /\ old \in Response /\ old.inbox \in Seq(Signals) /\ old.inbox # <<>> /\ ResponseInv(r)
      /\ ArtTypeOK
  BY DEF ArtInv, onFinished, Response
<1>2. Tail(old.inbox) \in Seq(Signals) /\ Head(old.inbox) \in Signals
  BY <1>1
<1>3. old.result = "waiting" /\ Head(old.inbox) = "ok" =>
        /\ old.url \in Urls /\ Picture(file[old.url], old.url) /\ Kept(old.url)
        /\ file[old.url] \in Contents
  BY <1>1 DEF ResponseInv, Picture, Contents
<1>4. /\ result \in {"free", "waiting", "error", "destroyed"} \cup Contents
      /\ result # "waiting"
      /\ result \in Contents => old.url \in Urls /\ Picture(result, old.url) /\ Kept(old.url)
  <2>1. CASE old.result # "waiting"
    BY <1>1, <2>1 DEF Response, ResponseInv
  <2>2. CASE old.result = "waiting"
    BY <1>1, <1>2, <1>3, <2>2 DEF Signals, Contents
  <2>. QED BY <2>1, <2>2
<1>. HIDE DEF result
<1>5. x \in Response /\ x.url = old.url /\ x.result = result
  BY <1>1, <1>2, <1>4 DEF Response
<1>6. response' = [response EXCEPT ![r] = x] /\ UNCHANGED <<plugin, playerVars, jobVars, file, asked>>
  <2>1. response' = [response EXCEPT ![r].inbox = Tail(@), ![r].result = result]
    BY DEF onFinished, result
  <2>. QED BY <1>1, <2>1 DEF onFinished, ArtInv
<1>7. response'[r] = x
  BY <1>6 DEF ArtInv
<1>8. ResponseInv(r)'
  <2>1. Kept(old.url)' = Kept(old.url) /\ sized' = sized
    BY <1>6 DEF Kept, jobVars
  <2>. QED BY <1>4, <1>5, <1>7, <2>1 DEF ResponseInv, Picture
<1>. QED BY <1>5, <1>6, <1>8, ResponseChanges


-----------------------------------------------------------------------------
(* The theorems.                                                           *)

LEMMA ArtInitInv ==
  ASSUME ArtInit
  PROVE  ArtInv
<1>1. 0 \in 0..MaxRedirects + 1 /\ <<>> \in Seq({"ok", "error", "destroyed"})
  OBVIOUS
<1>2. \A r \in Responses : response[r] = Free
  BY DEF ArtInit
<1>3. ArtTypeOK
  BY <1>1, <1>2 DEF ArtInit, ArtTypeOK, Free
<1>4. JobsInv
  BY DEF ArtInit, JobsInv
<1>5. response \in [Responses -> Response] /\ \A r \in Responses : ResponseInv(r)
  BY <1>2, FreeIsAResponse DEF ArtInit, ResponseInv
<1>. QED BY <1>3, <1>4, <1>5 DEF ArtInv

LEMMA StepInv ==
  ASSUME ArtInv, [ArtNext]_artVars
  PROVE  ArtInv'
<1>1. ASSUME NEW support \in BOOLEAN, NEW u \in Urls \cup {NoUrl}, PlayerPacket(u, support)
      PROVE  ArtInv'
  BY <1>1, PlayerPacketKeepsInv
<1>2. ASSUME NEW present \in BOOLEAN, PlayerList(present)
      PROVE  ArtInv'
  BY <1>2, PlayerListKeepsInv
<1>3. ASSUME NEW u \in Urls, NEW payload \in BOOLEAN, NEW known \in BOOLEAN,
             endFetching(u, payload, known)
      PROVE  ArtInv'
  BY <1>3, EndFetchingKeepsInv
<1>4. ASSUME NEW u \in Urls, TransferMoves(u) \/ TransferEnds(u)
      PROVE  ArtInv'
  BY <1>4, TransferMovesKeepsInv, TransferEndsKeepsInv
<1>5. ASSUME NEW u \in Urls, NEW r \in Responses, requestImageResponse(r, u)
      PROVE  ArtInv'
  BY <1>5, RequestKeepsInv
<1>6. ASSUME NEW r \in Responses, onFinished(r) \/ Discard(r)
      PROVE  ArtInv'
  BY <1>6, OnFinishedKeepsInv, DiscardKeepsInv
<1>7. CASE PluginDeleted \/ Crash \/ PluginLoaded
  BY <1>7, PluginDeletedKeepsInv, CrashKeepsInv, PluginLoadedKeepsInv
<1>8. CASE UNCHANGED artVars
  <2>1. PlayerTypes' /\ UNCHANGED <<plugin, jobVars, file, asked, response>>
    BY <1>8 DEF ArtInv, ArtTypeOK, PlayerTypes, artVars, playerVars
  <2>. QED BY <2>1, IdleKeepsInv
<1>. QED BY <1>1, <1>2, <1>3, <1>4, <1>5, <1>6, <1>7, <1>8 DEF ArtNext

(* Jobs, cache and waiting responses fit together, in every state.         *)
THEOREM ArtInvariance == ArtSpec => []ArtInv
<1>1. ArtInit => ArtInv
  BY ArtInitInv
<1>2. ArtInv /\ [ArtNext]_artVars => ArtInv'
  BY StepInv
<1>. QED BY <1>1, <1>2, PTL DEF ArtSpec

(* The variables keep their types: redirects are never followed past the   *)
(* one that is too many, and nothing unknown is queued for a response.     *)
THEOREM ArtTypeCorrectness == ArtSpec => []ArtTypeOK
<1>1. ArtInv => ArtTypeOK
  BY DEF ArtInv
<1>. QED BY <1>1, ArtInvariance, PTL

(* What the cache gains, and what a response that waited for a job gives   *)
(* to QML, is a whole picture if the size of its last transfer was         *)
(* announced: this stays so for as long as the response shows it.          *)
THEOREM PicturesWhole == ArtSpec => []PicturesAreWhole
<1>1. ArtInv => PicturesAreWhole
  BY DEF ArtInv, JobsInv, ResponseInv, PicturesAreWhole, Picture
<1>. QED BY <1>1, ArtInvariance, PTL

(* One job fetches a picture, which is not in the cache; it transfers or   *)
(* its request went out; and no response waits for a job that is gone      *)
(* without a signal that tells it so.                                      *)
THEOREM FetchesUnderWay == ArtSpec => []FetchUnderWay
<1>1. ArtInv => FetchUnderWay
  BY DEF ArtInv, JobsInv, ResponseInv, FetchUnderWay
<1>. QED BY <1>1, ArtInvariance, PTL

(* A job writes to the file of its own picture.                            *)
LEMMA GotDataWrites ==
  ASSUME NEW u \in Urls, NEW known \in BOOLEAN, gotData(u, known) \/ failed(u), ArtInv
  PROVE  \A v \in Urls \ {u} : file'[v] = file[v]
BY DEF gotData, GotDataOpens, GotDataFails, failed, ArtInv, ArtTypeOK

LEMMA StepLeavesCachedFiles ==
  ASSUME ArtInv, [ArtNext]_artVars, NEW v \in Urls, v \in m_diskCache
  PROVE  file'[v] = file[v]
<1>1. ASSUME NEW support \in BOOLEAN, NEW u \in Urls \cup {NoUrl}, PlayerPacket(u, support)
      PROVE  file'[v] = file[v]
  <2>. DEFINE url == m_remoteAlbumArtUrl'
  <2>1. url \in Urls \cup {NoUrl}
    BY <1>1 DEF PlayerPacket, ArtInv, ArtTypeOK
  <2>2. CASE UNCHANGED file
    BY <2>2
  <2>3. CASE url # NoUrl /\ url \notin m_diskCache /\ gotData(url, FALSE)
    <3>1. url \in Urls /\ v # url
      BY <2>1, <2>3
    <3>. QED BY <2>3, <3>1, GotDataWrites
  <2>. QED BY <1>1, <2>2, <2>3 DEF PlayerPacket, startFetching
<1>2. ASSUME NEW u \in Urls, NEW payload \in BOOLEAN, NEW known \in BOOLEAN,
             endFetching(u, payload, known)
      PROVE  file'[v] = file[v]
  <2>1. CASE UNCHANGED file
    BY <2>1
  <2>2. CASE u \in m_fetching /\ gotData(u, known)
    <3>1. u # v
      BY <2>2 DEF ArtInv, JobsInv
    <3>. QED BY <2>2, <3>1, GotDataWrites
  <2>. QED BY <1>2, <2>1, <2>2 DEF endFetching, gotData
<1>3. ASSUME NEW u \in Urls, TransferMoves(u) \/ TransferEnds(u)
      PROVE  file'[v] = file[v]
  <2>1. u # v
    <3>1. transfer[u]
      BY <1>3 DEF TransferMoves, TransferEnds, TransferFails, TransferSucceeds, Redirected
    <3>. QED BY <3>1, Transferring
  <2>2. CASE gotData(u, FALSE) \/ failed(u)
    BY <2>1, <2>2, GotDataWrites
  <2>3. ASSUME NEW content \in {"part", "whole", "cut"}, file' = [file EXCEPT ![u] = content]
        PROVE  file'[v] = file[v]
    BY <2>1, <2>3 DEF ArtInv, ArtTypeOK
  <2>. QED BY <1>3, <2>2, <2>3 DEF TransferMoves, TransferEnds, TransferFails, TransferSucceeds,
                                  Redirected
<1>4. CASE UNCHANGED file
  BY <1>4
<1>. QED BY <1>1, <1>2, <1>3, <1>4 DEF ArtNext, PlayerList, requestImageResponse, onFinished, Discard,
       PluginDeleted, Crash, NoPlugin, PluginLoaded, artVars

(* The file of a picture in the cache is not written to again, so that the *)
(* image thread may read it whenever it comes to it.                       *)
THEOREM CachedStay == ArtSpec => CachedFilesStay
<1>1. ArtInv /\ [ArtNext]_artVars => [\A u \in Urls : u \in m_diskCache => file'[u] = file[u]]_artVars
  BY StepLeavesCachedFiles
<1>. QED BY <1>1, ArtInvariance, PTL DEF ArtSpec, CachedFilesStay

=============================================================================
