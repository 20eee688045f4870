----------------------------- MODULE SftpServer -----------------------------
(***************************************************************************)
(* One connection to the SFTP server (sftpserver.cpp): the thread          *)
(* SshFsThread that accepts a password, waits for a channel with the       *)
(* subsystem sftp, and then walks round the list of channels, reading one  *)
(* message from each.  libssh calls back while the thread waits in it, and *)
(* that may change the very list that the thread walks.                    *)
(***************************************************************************)
EXTENDS SftpFiles, SequencesExt

CONSTANTS
  PasswordTries, \* SshServer::m_passwordTries, 3 in main()
  MaxRequests    \* bounds the requests of the connection

ASSUME ServerAssumption ==
  PasswordTries \in Nat \ {0} /\ MaxRequests \in Nat /\ IsFiniteSet(Channel)

VARIABLES
  thread,      \* where SshFsThread::run() is
  m_leftTries, m_authenticated, m_connected,
  m_channels,  \* the channels, and whether they have an SFTP session
  at, end,     \* the channel that the loop reads, and the last of this sweep
  asked,       \* the channels with a message of the client to read
  used,        \* the channels the client has opened; none is opened again
  requests,    \* how many requests it has sent
  waited       \* history: the requests of others served while a channel's waits

login == <<m_leftTries, m_authenticated, m_connected>>
position == <<at, end>>
vars == <<filesVars, thread, login, m_channels, position, asked, used, requests,
          waited>>

\* "broken": the list was changed under the loop that walks it, and the loop's
\* references into it are dead.  "aborted": the whole process is gone.
Threads == {"keys", "waiting", "serving", "broken", "ended", "aborted"}
Polling == {"waiting", "serving"}

TypeOK ==
  /\ FilesTypeOK
  /\ thread \in Threads
  /\ m_leftTries \in 0..PasswordTries
  /\ m_authenticated \in BOOLEAN /\ m_connected \in BOOLEAN
  /\ m_channels \in Seq([channel: Channel, sftp: BOOLEAN])
  /\ at \in Nat \ {0} /\ end \in Nat
  /\ thread = "serving" => at <= end /\ end <= Len(m_channels)
  /\ asked \subseteq Channel /\ used \subseteq Channel
  /\ requests \in 0..MaxRequests
  /\ waited \in [Channel -> Nat]

Init ==
  /\ FilesInit
  /\ thread = "keys"
  /\ m_leftTries = PasswordTries
  /\ m_authenticated = FALSE /\ m_connected = TRUE
  /\ m_channels = <<>>
  /\ at = 1 /\ end = 0
  /\ asked = {} /\ used = {} /\ requests = 0
  /\ waited = [c \in Channel |-> 0]

getChannelIndex(c) == {i \in DOMAIN m_channels : m_channels[i].channel = c}
hasSftpChannel == Len(m_channels) > 0 /\ m_channels[1].sftp

KeyExchange ==
  /\ thread = "keys"
  /\ thread' \in {"waiting", "ended"}
  /\ UNCHANGED <<filesVars, login, m_channels, position, asked, used, requests, waited>>

\* libssh asks only until the client is authenticated; disconnect() ends the
\* waiting loop.
authorizeWithPassword(correct) ==
  /\ thread = "waiting" /\ ~m_authenticated /\ m_connected
  /\ m_authenticated' = correct
  /\ m_leftTries' = IF correct THEN m_leftTries ELSE m_leftTries - 1
  /\ m_connected' = (m_leftTries' # 0)
  /\ thread' = IF m_connected' THEN thread ELSE "ended"
  /\ UNCHANGED <<filesVars, m_channels, position, asked, used, requests, waited>>

\* While the loop walks the list, a new element may move all of it; if it does
\* not, the sweep still ends where it was to end.
createChannel(c) ==
  /\ thread \in Polling /\ m_authenticated /\ c \notin used
  /\ m_channels' = Append(m_channels, [channel |-> c, sftp |-> FALSE])
  /\ used' = used \cup {c}
  /\ thread' = thread \/ (thread = "serving" /\ thread' = "broken")
  /\ UNCHANGED <<filesVars, login, position, asked, requests, waited>>

\* Other subsystems are granted as well, but nothing serves them.  A second
\* request for sftp fails an assertion, or puts a new session for the old one.
startSftpSession(c) ==
  /\ thread \in Polling /\ c \in used
  /\ \/ /\ \A i \in getChannelIndex(c) : m_channels[i].sftp
        /\ thread' = "aborted" /\ UNCHANGED <<filesVars, m_channels>>
     \/ \E i \in getChannelIndex(c) :
          /\ m_channels' = [m_channels EXCEPT ![i].sftp = TRUE]
          /\ IF m_channels[i].sftp THEN Release(c) ELSE UNCHANGED filesVars
          /\ thread' = thread
  /\ UNCHANGED <<login, position, asked, used, requests, waited>>

otherSubsystem(c) == thread \in Polling /\ c \in used /\ UNCHANGED vars

\* The callback for the end of the data and for the close of a channel: the
\* second of them does not find the channel and fails an assertion.
closeChannel(c) ==
  /\ thread \in Polling /\ c \in used
  /\ \/ /\ getChannelIndex(c) = {}
        /\ thread' = "aborted" /\ UNCHANGED <<filesVars, m_channels>>
     \/ \E i \in getChannelIndex(c) :
          /\ m_channels' = RemoveAt(m_channels, i)
          /\ Release(c)
          /\ thread' = IF thread = "serving" THEN "broken" ELSE thread
  /\ asked' = asked \ {c}
  /\ UNCHANGED <<login, position, used, requests, waited>>

\* A channel of the list without a session has no value() to initialise.
StartServing ==
  /\ thread = "waiting" /\ hasSftpChannel
  /\ thread' \in IF \A i \in DOMAIN m_channels : m_channels[i].sftp
                 THEN {"serving", "ended"} ELSE {"aborted"}
  /\ at' = 1 /\ end' = Len(m_channels)
  /\ UNCHANGED <<filesVars, login, m_channels, asked, used, requests, waited>>

ClientAsks(c) ==
  /\ thread \in Polling /\ c \notin asked /\ requests < MaxRequests
  /\ \E i \in getChannelIndex(c) : m_channels[i].sftp
  /\ asked' = asked \cup {c} /\ requests' = requests + 1
  /\ waited' = [waited EXCEPT ![c] = 0]
  /\ UNCHANGED <<filesVars, thread, login, m_channels, position, used>>

(* (Names with an underscore are faulty variants: see SftpFiles.)          *)
NextAt_Stays == at

\* readMessage blocks until there is a message, then the next channel is read;
\* a sweep takes the list as long as it was when the sweep began.
NextAt == IF at = end THEN 1 ELSE at + 1
Serve ==
  LET c == m_channels[at].channel IN
  /\ thread = "serving" /\ c \in asked
  /\ readMessage(c)
  /\ asked' = asked \ {c}
  /\ waited' = [d \in Channel |-> IF d \in asked' THEN waited[d] + 1 ELSE 0]
  /\ at' = NextAt
  /\ end' = IF at' = 1 THEN Len(m_channels) ELSE end
  /\ UNCHANGED <<thread, login, m_channels, used, requests>>

\* The loop comes to a channel that was opened and not yet granted sftp.
ReadUnready ==
  /\ thread = "serving" /\ ~m_channels[at].sftp
  /\ thread' = "aborted"
  /\ UNCHANGED <<filesVars, login, m_channels, position, asked, used, requests, waited>>

\* The loop goes on with dead references: it crashes, takes what it finds for
\* the end of the connection, or finds nothing odd and comes to its next sweep.
GoOnBroken ==
  /\ thread = "broken"
  /\ \/ /\ thread' \in {"aborted", "ended"}
        /\ UNCHANGED <<position, waited>>
     \/ /\ m_channels # <<>> /\ thread' = "serving"
        /\ at' = 1 /\ end' = Len(m_channels)
        /\ waited' = [c \in Channel |-> 0]
  /\ UNCHANGED <<filesVars, login, m_channels, asked, used, requests>>

\* The thread ends; the session is kept in main()'s list, with its open files.
ConnectionLost ==
  /\ thread \in Polling
  /\ thread' = "ended"
  /\ UNCHANGED <<filesVars, login, m_channels, position, asked, used, requests, waited>>

Next ==
  \/ KeyExchange
  \/ \E correct \in BOOLEAN : authorizeWithPassword(correct)
  \/ \E c \in Channel :
       createChannel(c) \/ startSftpSession(c) \/ otherSubsystem(c)
         \/ closeChannel(c) \/ ClientAsks(c)
  \/ StartServing
  \/ Serve \/ ReadUnready
  \/ GoOnBroken
  \/ ConnectionLost

Spec == Init /\ [][Next]_vars

-----------------------------------------------------------------------------
(* Properties.                                                             *)

\* The channels take turns: while the request of one waits, every other one is
\* served twice at most, once in the sweep that began before the channel was
\* opened and once in the next (the loop of run() over m_channels).
ChannelsTakeTurns ==
  \A c \in Channel : waited[c] <= 2 * (Cardinality(Channel) - 1)
=============================================================================
