------------------------------- MODULE FrontEnd -------------------------------
(***************************************************************************)
(* FcgiModule of pub/fcgimodule, one process of the web server: it accepts  *)
(* one request after the other, traces it with LogTrace, sends it to the    *)
(* core and prints the answer.  Built with FCGI_STD, as all makefiles under *)
(* http/ do; the overloads for FCGX_Request are compiled and never called.  *)
(*                                                                         *)
(* External: the core connection answers or fails, in both of its forms,    *)
(* and may leave text in the response either way.                           *)
(***************************************************************************)
EXTENDS LogTrace

CONSTANTS
  MaxRequests    \* bound: requests accepted

ASSUME FrontEndAssumption == MaxRequests \in Nat /\ MaxRequests <= MaxLogs

VARIABLES
  frontStage,    \* where the loop is
  frontMethod,   \* REQUEST_METHOD of the request
  frontContent,  \* content of StdRun: the requests whose text is in it
  frontSent,     \* requests the text sent to the core has
  frontOk,       \* what core_get returned
  frontRespone,  \* is there text in respone
  frontPrinted,  \* requests with an answer
  frontCount     \* requests accepted

frontOnly == <<frontStage, frontMethod, frontContent, frontSent, frontOk,
               frontRespone, frontPrinted, frontCount>>
frontVars == <<frontOnly, logVars>>

Methods == {"GET", "POST", "PUT", "DELETE", "HEAD"}

FrontInit ==
  /\ LogInit
  /\ frontStage = "init" /\ frontMethod = "GET"
  /\ frontContent = {} /\ frontSent = {}
  /\ frontOk = FALSE /\ frontRespone = FALSE
  /\ frontPrinted = {} /\ frontCount = 0

(* main: Init with the connection to the core and to the log server, Run.   *)
FcgiInit ==
  /\ frontStage = "init"
  /\ LogTraceInit
  /\ frontStage' = "accept"
  /\ UNCHANGED <<frontMethod, frontContent, frontSent, frontOk, frontRespone,
                 frontPrinted, frontCount>>

(* FCGI_Accept and the body of the request.  PUT and DELETE read a word     *)
(* into content, where it stays; POST appends its body to what is there.    *)
StdRun(method, word) ==
  LET id == frontCount + 1 IN
  /\ frontStage = "accept" /\ frontCount < MaxRequests
  /\ frontCount' = id
  /\ frontMethod' = method
  /\ frontContent' = CASE method = "POST" -> frontContent \cup {id}
                       [] method \in {"PUT", "DELETE"} /\ word -> {id}
                       [] OTHER -> frontContent
  /\ frontStage' = IF method \in {"GET", "POST"} THEN "trace" ELSE "accept"
  /\ frontSent' = {}
  /\ UNCHANGED <<frontOk, frontRespone, frontPrinted, logVars>>

(* A variable the web server left out, REQUEST_METHOD, CONTENT_LENGTH or    *)
(* QUERY_STRING: strcmp, strtol or std::string of NULL ends the process.    *)
NoVariable ==
  /\ frontStage = "accept" /\ frontCount < MaxRequests
  /\ frontCount' = frontCount + 1
  /\ frontStage' = "crashed"
  /\ UNCHANGED <<frontMethod, frontContent, frontSent, frontOk, frontRespone,
                 frontPrinted, logVars>>

(* The text for the core, and the call of LogMsg with it.                   *)
Trace ==
  /\ frontStage = "trace"
  /\ frontSent' = IF frontMethod = "POST" THEN frontContent ELSE {frontCount}
  /\ frontStage' = "log"
  /\ LogBegins("LogMsg") \/ LogLost
  /\ UNCHANGED <<frontMethod, frontContent, frontOk, frontRespone, frontPrinted,
                 frontCount>>

Logging ==
  /\ frontStage = "log"
  /\ LogSends
  /\ UNCHANGED frontOnly

(* core_get or core_get_by_size returns.                                   *)
CoreGet ==
  /\ frontStage = "log" /\ logCall = "none"
  /\ frontOk' \in BOOLEAN
  /\ frontRespone' \in BOOLEAN
  /\ frontStage' = "print"
  /\ UNCHANGED <<frontMethod, frontContent, frontSent, frontPrinted, frontCount, logVars>>

(* GetRequestMethod prints whatever there is, PostRequestMethod only an     *)
(* answer of a call that succeeded.                                        *)
Prints == frontRespone /\ (frontMethod = "POST" => frontOk)

PrintAnswer ==
  /\ frontStage = "print"
  /\ frontPrinted' = IF Prints THEN frontPrinted \cup {frontCount} ELSE frontPrinted
  /\ frontContent' = IF frontMethod = "POST" THEN {} ELSE frontContent
  /\ frontStage' = "accept"
  /\ UNCHANGED <<frontMethod, frontSent, frontOk, frontRespone, frontCount, logVars>>

(* FCGI_Accept fails: the loop ends, Close.                                *)
Close ==
  /\ frontStage = "accept"
  /\ frontStage' = "closed"
  /\ UNCHANGED <<frontMethod, frontContent, frontSent, frontOk, frontRespone,
                 frontPrinted, frontCount, logVars>>

FrontWork == Trace \/ Logging \/ CoreGet \/ PrintAnswer

FrontNext ==
  \/ FcgiInit
  \/ \E method \in Methods, word \in BOOLEAN : StdRun(method, word)
  \/ NoVariable
  \/ FrontWork
  \/ Close

(* The process runs, and the core answers or fails: every step of the work  *)
(* on a request is taken in the end.  Nobody need send a request.           *)
FrontFairness == WF_frontVars(FrontWork)

FrontSpec == FrontInit /\ [][FrontNext]_frontVars /\ FrontFairness

-----------------------------------------------------------------------------
FrontTypeOK ==
  /\ LogTypeOK
  /\ frontStage \in {"init", "accept", "trace", "log", "print", "closed", "crashed"}
  /\ frontMethod \in Methods
  /\ frontContent \subseteq 1 .. MaxRequests /\ frontSent \subseteq 1 .. MaxRequests
  /\ frontPrinted \subseteq 1 .. frontCount
  /\ frontOk \in BOOLEAN /\ frontRespone \in BOOLEAN
  /\ frontCount \in 0 .. MaxRequests

(* The process gets back to FCGI_Accept from every request, also when the   *)
(* log server takes a message in pieces, loses the connection or is not     *)
(* there.                                                                  *)
RequestsReturn == frontStage = "trace" ~> frontStage = "accept"
=============================================================================
