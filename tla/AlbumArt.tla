------------------------------- MODULE AlbumArt ------------------------------
(***************************************************************************)
(* Album art of a device's media player (albumartcache.cpp and receiving   *)
(* packets in mprisremoteplugin.cpp): a picture is fetched once, from the  *)
(* device by a packet with payload or from the web with redirects, kept in *)
(* a cache directory, and given to QML's image thread by responses that    *)
(* wait for the fetching job.                                              *)
(*                                                                         *)
(* The copying itself is CopyJob.tla; here a transfer moves some bytes and *)
(* ends.  All but the responses runs in the GUI thread; a response gets    *)
(* its job's signals queued.                                               *)
(***************************************************************************)
EXTENDS Integers, Sequences

CONSTANTS
  Urls,          \* the URLs a player announces
  LocalUrls,     \* those of scheme file: the device is asked for them
  Responses,     \* identities for QML's requests, used again
  MaxRedirects,  \* 10 in the code
  NoUrl

ASSUME AlbumArtAssumption ==
  LocalUrls \subseteq Urls /\ MaxRedirects \in Nat /\ NoUrl \notin Urls

VARIABLES
  plugin,           \* "loaded", "gone" with its device, or "crashed"
  m_supportAlbumArtPayload,
  player,           \* the player exists
  m_remoteAlbumArtUrl,
  m_fetching, m_diskCache,
  transfer,         \* a URL's job has a transfer that is not over
  sized,            \* URLs whose last transfer had its size announced
  m_redirectCount,
  file,             \* each URL's cache file: "none", "empty", a "part",
                    \* "whole", or "cut": the end was short of the picture
  asked,            \* URLs requested from the device and not answered
  gained,           \* what m_diskCache gained since the plugin was loaded
  response          \* QML's waiting image responses

jobVars == <<m_fetching, m_diskCache, transfer, sized, m_redirectCount, gained>>
playerVars == <<m_supportAlbumArtPayload, player, m_remoteAlbumArtUrl>>
artVars == <<plugin, playerVars, jobVars, file, asked, response>>

(* A response: its job's URL, whether the job lives, the queued signals,   *)
(* and what it gave to QML.                                                *)
Free == [url |-> NoUrl, job |-> FALSE, inbox |-> <<>>, result |-> "free"]

ArtInit ==
  /\ plugin = "gone"
  /\ m_supportAlbumArtPayload = FALSE /\ player = FALSE /\ m_remoteAlbumArtUrl = NoUrl
  /\ m_fetching = {} /\ m_diskCache = {} /\ gained = {}
  /\ transfer = [u \in Urls |-> FALSE] /\ sized = {}
  /\ m_redirectCount = [u \in Urls |-> 0]
  /\ file = [u \in Urls |-> "none"]
  /\ asked = {}
  /\ response = [r \in Responses |-> Free]

-----------------------------------------------------------------------------
(* The life of a fetching job.                                             *)

(* DownloadAlbumArtJob::finished of the job of u: AlbumArtCache            *)
(* ::fetchFinished at once, the job's responses when they come to it.      *)
Finished(u, ok) ==
  /\ m_fetching' = m_fetching \ {u}
  /\ transfer' = [transfer EXCEPT ![u] = FALSE]
  /\ m_diskCache' = IF ok THEN m_diskCache \cup {u} ELSE m_diskCache
  /\ gained' = IF ok THEN gained \cup {u} ELSE gained
  /\ response' =
       [r \in Responses |->
          IF response[r].url = u /\ response[r].result = "waiting" /\ response[r].inbox = <<>>
          THEN [response[r] EXCEPT !.inbox = <<IF ok THEN "ok" ELSE "error">>]
          ELSE response[r]]
  /\ UNCHANGED sized

(* gotData with a payload, whose size is known or not: the file is created *)
(* and copied into ...                                                     *)
GotDataOpens(u, known) ==
  /\ m_fetching' = m_fetching \cup {u}
  /\ transfer' = [transfer EXCEPT ![u] = TRUE]
  /\ sized' = IF known THEN sized \cup {u} ELSE sized \ {u}
  /\ file' = [file EXCEPT ![u] = "empty"]
  /\ UNCHANGED <<m_diskCache, gained, response>>

(* ... or it cannot be, and the job is over (as it is without a payload).  *)
GotDataFails(u) ==
  /\ Finished(u, FALSE)
  /\ UNCHANGED file

gotData(u, known) == GotDataOpens(u, known) \/ GotDataFails(u)

(* failed(): the file is emptied to mark the failure.                      *)
failed(u) ==
  /\ Finished(u, FALSE)
  /\ file' = [file EXCEPT ![u] = "empty"]

-----------------------------------------------------------------------------
(* Packets.                                                                *)

(* (Names with an underscore are faulty variants, the mutants that show    *)
(* that the properties notice: each stands before what it is a fault of.)  *)

(* Faults: what is in the cache is fetched again; the device is not asked. *)
startFetching_Again(u) ==
  IF u = NoUrl \/ u \in m_fetching
  THEN UNCHANGED <<jobVars, file, asked, response>>
  ELSE /\ m_redirectCount' = [m_redirectCount EXCEPT ![u] = 0]
       /\ IF u \in LocalUrls
          THEN /\ m_fetching' = m_fetching \cup {u} /\ asked' = asked \cup {u}
               /\ UNCHANGED <<m_diskCache, transfer, sized, gained, file, response>>
          ELSE gotData(u, FALSE) /\ UNCHANGED asked

startFetching_Unasked(u) ==
  IF u = NoUrl \/ u \in m_diskCache \cup m_fetching
  THEN UNCHANGED <<jobVars, file, asked, response>>
  ELSE /\ m_redirectCount' = [m_redirectCount EXCEPT ![u] = 0]
       /\ IF u \in LocalUrls
          THEN /\ m_fetching' = m_fetching \cup {u}
               /\ asked' = IF m_remoteAlbumArtUrl = u THEN asked \cup {u} ELSE asked
               /\ UNCHANGED <<m_diskCache, transfer, sized, gained, file, response>>
          ELSE gotData(u, FALSE) /\ UNCHANGED asked

(* AlbumArtCache::startFetching, with askForAlbumArt.                      *)
startFetching(u) ==
  IF u = NoUrl \/ u \in m_diskCache \cup m_fetching
  THEN UNCHANGED <<jobVars, file, asked, response>>
  ELSE /\ m_redirectCount' = [m_redirectCount EXCEPT ![u] = 0]
       /\ IF u \in LocalUrls
          THEN /\ m_fetching' = m_fetching \cup {u}
               /\ asked' = IF m_supportAlbumArtPayload' /\ player /\ m_remoteAlbumArtUrl' = u
                           THEN asked \cup {u} ELSE asked
               /\ UNCHANGED <<m_diskCache, transfer, sized, gained, file, response>>
          ELSE gotData(u, FALSE) /\ UNCHANGED asked

(* A packet about the player, with the URL u or none, that says or leaves  *)
(* it at whether the device sends pictures.  (A URL from a device that     *)
(* does not would be looked up in no cache: see Crash.)                    *)
PlayerPacket(u, support) ==
  /\ plugin = "loaded"
  /\ support \/ u = NoUrl \/ ~player
  /\ m_supportAlbumArtPayload' = support
  /\ m_remoteAlbumArtUrl' = IF u = NoUrl \/ ~player THEN m_remoteAlbumArtUrl ELSE u
  /\ IF support /\ player THEN startFetching(m_remoteAlbumArtUrl')
     ELSE UNCHANGED <<jobVars, file, asked, response>>
  /\ UNCHANGED <<plugin, player>>

(* A list of players, with this one or without.                            *)
PlayerList(present) ==
  /\ plugin = "loaded" /\ player # present
  /\ player' = present
  /\ m_remoteAlbumArtUrl' = NoUrl
  /\ UNCHANGED <<plugin, m_supportAlbumArtPayload, jobVars, file, asked, response>>

(* A packet that transfers album art, or says that there is none: it is    *)
(* ignored without a job, or if the job has a transfer already.  Its       *)
(* payloadSize goes to the copy unchecked, the -1 of an unknown one, too.  *)
endFetching(u, payload, known) ==
  /\ plugin = "loaded"
  /\ asked' = asked \ {u}
  /\ IF u \notin m_fetching \/ transfer[u] THEN UNCHANGED <<jobVars, file, response>>
     ELSE /\ IF payload THEN gotData(u, known) ELSE GotDataFails(u)
          /\ UNCHANGED m_redirectCount
  /\ UNCHANGED <<plugin, playerVars>>

-----------------------------------------------------------------------------
(* Transfers.                                                              *)

TransferMoves(u) ==
  /\ transfer[u] /\ file[u] = "empty"
  /\ file' = [file EXCEPT ![u] = "part"]
  /\ UNCHANGED <<plugin, playerVars, jobVars, asked, response>>

TransferFails(u) ==
  /\ transfer[u]
  /\ failed(u)
  /\ UNCHANGED <<plugin, playerVars, m_redirectCount, asked>>

(* Fault: the announced size is not passed on.                             *)
TransferSucceeds_AnySize(u, content) ==
  /\ transfer[u]
  /\ file' = [file EXCEPT ![u] = content]
  /\ Finished(u, TRUE)
  /\ UNCHANGED <<plugin, playerVars, m_redirectCount, asked>>

(* The copy succeeds at the announced size only.  Without one any end of   *)
(* its source will do: that of a device that told none, and a web server's *)
(* 200 even if the connection broke.                                       *)
TransferSucceeds(u, content) ==
  /\ transfer[u]
  /\ content = "cut" => u \notin sized
  /\ file' = [file EXCEPT ![u] = content]
  /\ Finished(u, TRUE)
  /\ UNCHANGED <<plugin, playerVars, m_redirectCount, asked>>

(* Faults: redirects are not counted; one too many is followed.            *)
Redirected_Uncounted(u) ==
  /\ transfer[u] /\ u \notin LocalUrls
  /\ gotData(u, FALSE)
  /\ UNCHANGED <<plugin, playerVars, m_redirectCount, asked>>

Redirected_Late(u) ==
  /\ transfer[u] /\ u \notin LocalUrls
  /\ m_redirectCount' = [m_redirectCount EXCEPT ![u] = @ + 1]
  /\ IF m_redirectCount[u] > MaxRedirects THEN failed(u) ELSE gotData(u, FALSE)
  /\ UNCHANGED <<plugin, playerVars, asked>>

(* The web server's answer is a redirect: follow it, but not too often.    *)
Redirected(u) ==
  /\ transfer[u] /\ u \notin LocalUrls
  /\ m_redirectCount' = [m_redirectCount EXCEPT ![u] = @ + 1]
  /\ IF m_redirectCount[u] + 1 > MaxRedirects THEN failed(u) ELSE gotData(u, FALSE)
  /\ UNCHANGED <<plugin, playerVars, asked>>

TransferEnds(u) ==
  \/ TransferFails(u)
  \/ \E content \in {"whole", "cut"} : TransferSucceeds(u, content)
  \/ Redirected(u)

-----------------------------------------------------------------------------
(* The life of the plugin, and the image thread.                           *)

(* What is left when the plugin is not there.                              *)
NoPlugin ==
  /\ m_supportAlbumArtPayload' = FALSE /\ player' = FALSE /\ m_remoteAlbumArtUrl' = NoUrl
  /\ m_fetching' = {} /\ m_diskCache' = {} /\ gained' = {} /\ asked' = {}
  /\ transfer' = [u \in Urls |-> FALSE]
  /\ m_redirectCount' = [u \in Urls |-> 0]
  /\ UNCHANGED <<sized, file>>

(* The device goes, the plugin and its jobs with it.                       *)
PluginDeleted ==
  /\ plugin = "loaded" /\ plugin' = "gone"
  /\ NoPlugin
  /\ response' = [r \in Responses |->
       IF response[r].job
       THEN [response[r] EXCEPT !.job = FALSE, !.inbox = Append(@, "destroyed")]
       ELSE response[r]]

(* A URL comes from a device that does not send pictures.                  *)
Crash ==
  /\ plugin = "loaded" /\ player /\ plugin' = "crashed"
  /\ NoPlugin
  /\ response' = [r \in Responses |-> Free]

(* AlbumArtCache's constructor: every file counts as cached.               *)
PluginLoaded ==
  /\ plugin # "loaded" /\ plugin' = "loaded"
  /\ m_diskCache' = {u \in Urls : file[u] # "none"}
  /\ UNCHANGED <<playerVars, m_fetching, transfer, sized, m_redirectCount, gained, file, asked,
                 response>>

(* QML requests a picture that is being fetched.  (For any other it gets   *)
(* the file as it is, or an empty image, and nothing is kept.)             *)
requestImageResponse(r, u) ==
  /\ plugin = "loaded" /\ response[r] = Free /\ u \in m_fetching
  /\ response' = [response EXCEPT ![r] =
       [url |-> u, job |-> TRUE, inbox |-> <<>>, result |-> "waiting"]]
  /\ UNCHANGED <<plugin, playerVars, jobVars, file, asked>>

(* The image thread handles a queued signal: the first one decides.        *)
onFinished(r) ==
  /\ response[r].inbox # <<>>
  /\ response' = [response EXCEPT
       ![r].inbox = Tail(@),
       ![r].result = IF @ # "waiting" THEN @
                     ELSE IF Head(response[r].inbox) = "ok" THEN file[response[r].url]
                     ELSE Head(response[r].inbox)]
  /\ UNCHANGED <<plugin, playerVars, jobVars, file, asked>>

(* QML deletes a response that has finished.                               *)
Discard(r) ==
  /\ response[r].result \notin {"free", "waiting"} /\ response[r].inbox = <<>>
  /\ response' = [response EXCEPT ![r] = Free]
  /\ UNCHANGED <<plugin, playerVars, jobVars, file, asked>>

ArtNext ==
  \/ \E support \in BOOLEAN : \E u \in Urls \cup {NoUrl} : PlayerPacket(u, support)
  \/ \E present \in BOOLEAN : PlayerList(present)
  \/ \E u \in Urls :
       \/ \E payload \in BOOLEAN, known \in BOOLEAN : endFetching(u, payload, known)
       \/ TransferMoves(u) \/ TransferEnds(u)
       \/ \E r \in Responses : requestImageResponse(r, u)
  \/ \E r \in Responses : onFinished(r) \/ Discard(r)
  \/ PluginDeleted \/ Crash \/ PluginLoaded

(* Web servers end what they have begun to answer, and threads go on.      *)
Fairness ==
  /\ \A u \in Urls \ LocalUrls : WF_artVars(TransferEnds(u))
  /\ \A r \in Responses : WF_artVars(onFinished(r))

ArtSpec == ArtInit /\ [][ArtNext]_artVars /\ Fairness

-----------------------------------------------------------------------------
(* Properties.                                                             *)

Contents == {"empty", "part", "cut", "whole"}

ArtTypeOK ==
  /\ plugin \in {"loaded", "gone", "crashed"}
  /\ m_supportAlbumArtPayload \in BOOLEAN /\ player \in BOOLEAN
  /\ m_remoteAlbumArtUrl \in Urls \cup {NoUrl}
  /\ m_fetching \subseteq Urls /\ m_diskCache \subseteq Urls /\ gained \subseteq m_diskCache
  /\ transfer \in [Urls -> BOOLEAN] /\ sized \subseteq Urls
  /\ m_redirectCount \in [Urls -> 0..MaxRedirects + 1]
  /\ file \in [Urls -> Contents \cup {"none"}]
  /\ asked \subseteq Urls
  /\ \A r \in Responses :
       /\ response[r].url \in Urls \cup {NoUrl} /\ response[r].job \in BOOLEAN
       /\ response[r].inbox \in Seq({"ok", "error", "destroyed"})
       /\ response[r].result \in {"free", "waiting", "error", "destroyed"} \cup Contents

(* What the cache gains is a whole picture if its size was announced, and  *)
(* no response that waited gives QML anything else: a failed or unfinished *)
(* transfer is never taken for a picture.  (Without an announced size, as  *)
(* from the web and from a device that tells none, an answer that was cut  *)
(* short is.  After the plugin was reloaded any file counts.)              *)
PicturesAreWhole ==
  LET Picture(content, u) == content = "whole" \/ (content = "cut" /\ u \notin sized) IN
  /\ \A u \in gained : Picture(file[u], u)
  /\ \A r \in Responses :
       response[r].result \in Contents => Picture(response[r].result, response[r].url)

(* A picture is fetched by one job, and not while it is in the cache.  The *)
(* job has a transfer that goes on, or waits for a device that was really  *)
(* asked: the conditions of askForAlbumArt never silence a request.  No    *)
(* response is forgotten: while nothing is queued for it, its job is still *)
(* to finish.                                                              *)
FetchUnderWay ==
  /\ m_fetching \cap m_diskCache = {}
  /\ \A u \in Urls :
       /\ transfer[u] => u \in m_fetching
       /\ u \in m_fetching => transfer[u] \/ u \in asked
  /\ \A r \in Responses :
       response[r].result = "waiting" /\ response[r].inbox = <<>>
         => response[r].url \in m_fetching

(* What is in the cache stays as it is, so that the image thread may read  *)
(* it at any time.                                                         *)
CachedFilesStay ==
  [][\A u \in Urls : u \in m_diskCache => file'[u] = file[u]]_artVars

(* A picture from the web is not fetched for ever, however its servers     *)
(* redirect, if each of them ends its answer.                              *)
WebFetchEnds ==
  \A u \in Urls \ LocalUrls : u \in m_fetching ~> u \notin m_fetching

=============================================================================
