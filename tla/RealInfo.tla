------------------------------- MODULE RealInfo -------------------------------
(***************************************************************************)
(* The quotation plugin, plugins/realinfo: the handlers the core calls and  *)
(* RealInfoLogic over the market engine (external) and the share engine     *)
(* (StockBasics; here the codes it knows).  A request is one message of one *)
(* socket; both engines may change between two steps of a handler.          *)
(*                                                                         *)
(* An answer keeps its status and how many entries its lists have; prices,  *)
(* names and the text of the answer are left out.  USE_MARKET and           *)
(* USE_STOCKSHARE are defined, as in the makefile.                          *)
(***************************************************************************)
EXTENDS Naturals, Integers, FiniteSets, Sequences, SequencesExt

CONSTANTS
  Sockets,       \* sockets with a request, one each
  InfoCodes,     \* stock codes
  IndexCodes,    \* sh000001, sh399001, hs300, as a sequence
  NoCode         \* a request without a stock_code

ASSUME RealInfoAssumption == IndexCodes \in Seq(ToSet(IndexCodes))

VARIABLES
  infoPacket,    \* what has come in from each socket
  infoStage,     \* where its handler is
  infoSent,      \* answers written to each socket
  infoReturn,    \* what the handler returned to the core
  infoIndex,     \* info_list of OnMarketIndexInfo
  infoMarket,    \* codes the market engine has a quote of
  infoBasics,    \* codes the share engine has a row of
  infoTimer,     \* opcodes of the timers
  infoStarted    \* OnRealInfoStart was called

infoRequest == <<infoPacket, infoStage, infoSent, infoReturn, infoIndex>>
infoVars == <<infoRequest, infoMarket, infoBasics, infoTimer, infoStarted>>

STRUCT_ERROR == -100

NoPacket == [kind |-> "none"]

(* NULL data; text that is no request; a type with no case; the two types.  *)
Packets ==
  [kind : {"null", "garbled", "other", "REALINFO_INDEX"}]
  \cup [kind : {"REALINFO_LATESTN"}, code : InfoCodes \cup {NoCode}]

Quotes == InfoCodes \cup ToSet(IndexCodes)

InfoStages == {"none", "message", "quote", "basics", "index", "done"}

InfoInit ==
  /\ infoPacket = [s \in Sockets |-> NoPacket]
  /\ infoStage = [s \in Sockets |-> "none"]
  /\ infoSent = [s \in Sockets |-> <<>>]
  /\ infoReturn = [s \in Sockets |-> "none"]
  /\ infoIndex = [s \in Sockets |-> 0]
  /\ infoMarket \in SUBSET Quotes
  /\ infoBasics = {}
  /\ infoTimer = {}
  /\ infoStarted = FALSE

-----------------------------------------------------------------------------
(* SendRealInfoLatestProtocol: SetErrorState, set_latest_info with the five *)
(* steps of the book that InitBuyN copies, SetIndexInfo.                    *)
ErrorAnswer(status) == [status |-> status, sell |-> 0, buy |-> 0, index |-> 0]

InitBuyN == [buy |-> 5, sell |-> 5]

LatestAnswer(info) == [status |-> 1, sell |-> info.sell, buy |-> info.buy, index |-> 0]

IndexAnswer(n) == [status |-> 1, sell |-> 0, buy |-> 0, index |-> n]

(* SendMessageBySize: length and text, whatever SendFull says.              *)
SendMessageBySize(s, answer) == infoSent' = [infoSent EXCEPT ![s] = Append(@, answer)]

InfoEngines == <<infoMarket, infoBasics, infoTimer, infoStarted>>

Step(s, stage) == infoStage' = [infoStage EXCEPT ![s] = stage]

InStage(s, stage) == infoStage[s] = stage

(* realinfo_init.cc: true is HANDLER_FINISHED, false HANDLER_GO_ON.         *)
Return(s, r) ==
  /\ Step(s, "done")
  /\ infoReturn' = [infoReturn EXCEPT ![s] =
                      IF r THEN "HANDLER_FINISHED" ELSE "HANDLER_GO_ON"]

(* SEND_ERROR_INFO and the return that follows it.                          *)
Refuse(s, status, r) ==
  /\ SendMessageBySize(s, ErrorAnswer(status))
  /\ Return(s, r)

-----------------------------------------------------------------------------
(* OnRealInfoStart: the logic and its engines; OnIniTimer: the one timer.   *)
OnRealInfoStart ==
  /\ ~infoStarted
  /\ infoStarted' = TRUE
  /\ infoBasics' \in SUBSET InfoCodes
  /\ UNCHANGED <<infoRequest, infoMarket, infoTimer>>

OnIniTimer ==
  /\ infoStarted
  /\ infoTimer' = infoTimer \cup {"UPDATE_STOCK"}
  /\ UNCHANGED <<infoRequest, infoMarket, infoBasics, infoStarted>>

(* OnTimeout: UpdateStockBasic keeps the rows there are, or swaps in some.  *)
(* UPDATE_MARKET has no timer.                                             *)
OnTimeout ==
  /\ "UPDATE_STOCK" \in infoTimer
  /\ infoBasics' \in {infoBasics} \cup (SUBSET InfoCodes \ {{}})
  /\ UNCHANGED <<infoRequest, infoMarket, infoTimer, infoStarted>>

(* The market engine reads new quotes.                                     *)
MarketChanges ==
  /\ infoMarket' \in SUBSET Quotes
  /\ UNCHANGED <<infoRequest, infoBasics, infoTimer, infoStarted>>

Arrive(s) ==
  /\ infoStarted /\ InStage(s, "none")
  /\ infoPacket' \in {[infoPacket EXCEPT ![s] = p] : p \in Packets}
  /\ Step(s, "message")
  /\ UNCHANGED <<infoSent, infoReturn, infoIndex, InfoEngines>>

(* OnRealInfoMessage, with the start of the handler it calls.               *)
OnRealInfoMessage(s) ==
  LET packet == infoPacket[s] IN
  /\ InStage(s, "message")
  /\ CASE packet.kind \in {"null", "other"} -> Return(s, FALSE) /\ UNCHANGED infoSent
       [] packet.kind = "garbled" -> Refuse(s, STRUCT_ERROR, TRUE)
       [] packet.kind = "REALINFO_INDEX" ->
            Step(s, "index") /\ UNCHANGED <<infoSent, infoReturn>>
       [] packet.kind = "REALINFO_LATESTN" ->
            IF packet.code = NoCode THEN Refuse(s, -100, FALSE)
            ELSE Step(s, "quote") /\ UNCHANGED <<infoSent, infoReturn>>
  /\ UNCHANGED <<infoPacket, infoIndex, InfoEngines>>

(* OnSingleStockLatestRecords, the quote: GetLatestInfo of the market.      *)
LatestQuote(s) ==
  /\ InStage(s, "quote")
  /\ IF infoPacket[s].code \in infoMarket
     THEN Step(s, "basics") /\ UNCHANGED <<infoSent, infoReturn>>
     ELSE Refuse(s, -1, FALSE)
  /\ UNCHANGED <<infoPacket, infoIndex, InfoEngines>>

(* Variant: a stock without a row is reported, and then answered.           *)
NoteAndAnswer(s, known) ==
  /\ infoSent' = [infoSent EXCEPT ![s] =
       @ \o (IF known THEN <<>> ELSE <<ErrorAnswer(-1)>>) \o <<LatestAnswer(InitBuyN)>>]
  /\ Return(s, TRUE)

AnswerIfKnown(s, known) ==
  IF known
  THEN SendMessageBySize(s, LatestAnswer(InitBuyN)) /\ Return(s, TRUE)
  ELSE Refuse(s, -1, FALSE)

(* OnSingleStockLatestRecords, the rest: GetStockBasicInfo and the answer.  *)
OnSingleStockLatestRecords(s) ==
  /\ InStage(s, "basics")
  /\ AnswerIfKnown(s, infoPacket[s].code \in infoBasics)
  /\ UNCHANGED <<infoPacket, infoIndex, InfoEngines>>

(* BuildIndexData: one index after the other.                               *)
BuildIndexData(s) ==
  /\ InStage(s, "index") /\ infoIndex[s] < Len(IndexCodes)
  /\ IF IndexCodes[infoIndex[s] + 1] \in infoMarket
     THEN /\ infoIndex' = [infoIndex EXCEPT ![s] = @ + 1]
          /\ UNCHANGED <<infoStage, infoSent, infoReturn>>
     ELSE Refuse(s, -1, FALSE) /\ UNCHANGED infoIndex
  /\ UNCHANGED <<infoPacket, InfoEngines>>

OnMarketIndexInfo(s) ==
  /\ InStage(s, "index") /\ infoIndex[s] = Len(IndexCodes)
  /\ SendMessageBySize(s, IndexAnswer(infoIndex[s]))
  /\ Return(s, TRUE)
  /\ UNCHANGED <<infoPacket, infoIndex, InfoEngines>>

InfoNext ==
  \/ OnRealInfoStart \/ OnIniTimer \/ OnTimeout \/ MarketChanges
  \/ \E s \in Sockets :
       \/ Arrive(s) \/ OnRealInfoMessage(s)
       \/ LatestQuote(s) \/ OnSingleStockLatestRecords(s)
       \/ BuildIndexData(s) \/ OnMarketIndexInfo(s)

InfoSpec == InfoInit /\ [][InfoNext]_infoVars

-----------------------------------------------------------------------------
InfoTypeOK ==
  /\ infoPacket \in [Sockets -> Packets \cup {NoPacket}]
  /\ infoStage \in [Sockets -> InfoStages]
  /\ infoReturn \in [Sockets -> {"none", "HANDLER_FINISHED", "HANDLER_GO_ON"}]
  /\ infoIndex \in [Sockets -> 0 .. Len(IndexCodes)]
  /\ infoMarket \subseteq Quotes /\ infoBasics \subseteq InfoCodes
  /\ infoTimer \subseteq {"UPDATE_STOCK"} /\ infoStarted \in BOOLEAN

(* A client gets one answer to a request, although the engines change while *)
(* a handler works and every early return has a message of its own: never a *)
(* second one, none only for what is no request of this plugin, and one     *)
(* with data, complete, exactly when the handler says it did the work or    *)
(* the text could not be read.                                             *)
AnsweredOnce ==
  \A s \in Sockets :
    /\ Len(infoSent[s]) <= 1
    /\ infoStage[s] # "done" => infoSent[s] = <<>>
    /\ infoStage[s] = "done" =>
         /\ infoSent[s] = <<>> <=> infoPacket[s].kind \in {"null", "other"}
         /\ infoReturn[s] = "HANDLER_FINISHED" =>
              \/ infoPacket[s].kind = "garbled" /\ infoSent[s][1].status = STRUCT_ERROR
              \/ infoPacket[s].kind = "REALINFO_LATESTN" /\ infoSent[s][1].buy = 5
              \/ infoPacket[s].kind = "REALINFO_INDEX"
                   /\ infoSent[s][1].index = Len(IndexCodes)
         /\ infoReturn[s] = "HANDLER_GO_ON" =>
              \A i \in DOMAIN infoSent[s] : infoSent[s][i].status < 0
=============================================================================
