------------------------------- MODULE LogTrace -------------------------------
(***************************************************************************)
(* LogTrace of pub/logtrace: messages for the log server on one stream      *)
(* socket.  A message of LogLen chunks is sent by a loop of send calls that *)
(* ends when all is sent or a call fails.  A stream is kept as the list of  *)
(* messages that have left at least one chunk on it.                        *)
(***************************************************************************)
EXTENDS Naturals, Sequences

CONSTANTS
  LogLen,      \* chunks of a message
  MaxLogs      \* bound: calls

ASSUME LogTraceAssumption == LogLen \in Nat \ {0} /\ MaxLogs \in Nat

VARIABLES
  logStatus,   \* status_
  logCall,     \* the call at work, or "none"
  logSent,     \* sended_len
  logStream,   \* messages on the connection of sock_fd_
  logCount     \* calls made

logVars == <<logStatus, logCall, logSent, logStream, logCount>>

LogCalls == {"LogMessage", "LogMsg"}

LogInit ==
  /\ logStatus = "UNINIT" /\ logCall = "none" /\ logSent = 0
  /\ logStream = <<>> /\ logCount = 0

(* Init: a new socket, connected or not; the old one is never closed.       *)
Reconnected ==
  /\ logStatus' \in {"NORMAL", "EXCEPTION"}
  /\ logStream' = <<>>

LogTraceInit ==
  /\ logStatus = "UNINIT"
  /\ Reconnected
  /\ UNCHANGED <<logCall, logSent, logCount>>

LogIdle == logStatus # "UNINIT" /\ logCall = "none"

(* LogMessage or LogMsg is called.                                         *)
LogBegins(call) ==
  /\ LogIdle /\ logStatus = "NORMAL" /\ logCount < MaxLogs
  /\ logCall' = call /\ logSent' = 0 /\ logCount' = logCount + 1
  /\ UNCHANGED <<logStatus, logStream>>

(* Either is called while the logger is not connected: it connects, and the *)
(* message is lost.                                                        *)
LogLost ==
  /\ LogIdle /\ logStatus = "EXCEPTION" /\ logCount < MaxLogs
  /\ Reconnected
  /\ logCount' = logCount + 1
  /\ UNCHANGED <<logCall, logSent>>

(* One send that takes some chunks, and the end of the loop with the last.  *)
Send ==
  /\ logCall # "none"
  /\ \E n \in 1 .. LogLen - logSent :
       IF logSent + n = LogLen
       THEN /\ logStream' = Append(logStream, [by |-> logCall, whole |-> TRUE])
            /\ logCall' = "none" /\ logSent' = 0
       ELSE logSent' = logSent + n /\ UNCHANGED <<logStream, logCall>>
  /\ UNCHANGED <<logStatus, logCount>>

(* Variant: the failure is looked for inside the loop, as LogMessage does.  *)
Unnoticed(call) == UNCHANGED logStatus

(* The test for a failure: after the loop in LogMsg; in LogMessage inside a *)
(* loop whose condition is that the call has not failed.                    *)
NotesFailure(call) ==
  logStatus' = IF call = "LogMsg" THEN "EXCEPTION" ELSE logStatus

(* Variant: a message that failed is sent again from its beginning.         *)
StartsOver == logSent' = 0 /\ UNCHANGED <<logCall, logStream>>

GivesUp ==
  /\ logStream' = IF logSent = 0 THEN logStream
                  ELSE Append(logStream, [by |-> logCall, whole |-> FALSE])
  /\ logCall' = "none" /\ logSent' = 0

SendFails ==
  /\ logCall # "none"
  /\ NotesFailure(logCall)
  /\ GivesUp
  /\ UNCHANGED logCount

LogSends == Send \/ SendFails

LogNext ==
  \/ LogTraceInit
  \/ \E call \in LogCalls : LogBegins(call)
  \/ LogLost
  \/ LogSends

LogSpec == LogInit /\ [][LogNext]_logVars

-----------------------------------------------------------------------------
LogTypeOK ==
  /\ logStatus \in {"UNINIT", "NORMAL", "EXCEPTION"}
  /\ logCall \in LogCalls \cup {"none"}
  /\ logSent \in 0 .. LogLen - 1
  /\ logStream \in Seq([by : LogCalls, whole : BOOLEAN])
  /\ logCount \in 0 .. MaxLogs

(* The log server reads lines from a stream: behind a message that was cut  *)
(* off there must be nothing on the same stream, or two lines are read as   *)
(* one.  LogMsg keeps this however the calls of send fail and whichever     *)
(* method is called next; LogMessage never notices that it was cut.         *)
WholeLogLines ==
  \A i \in DOMAIN logStream :
    ~logStream[i].whole /\ logStream[i].by = "LogMsg" =>
      /\ i = Len(logStream)
      /\ logSent = 0 /\ logCall = "none"
=============================================================================
