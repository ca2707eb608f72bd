----------------------------- MODULE MCServices -----------------------------
(***************************************************************************)
(* The components around the account that share no state with one another:  *)
(* each behaviour picks one of them in its first state and runs it alone,   *)
(* so that the sizes of their state spaces add up instead of multiplying.   *)
(* LogTrace is run twice, by itself with any mixture of its two methods and *)
(* under the FastCGI front end that calls it.                               *)
(***************************************************************************)
EXTENDS StockGroups, MysqlPool, DbSql, StockBasics, RealInfo, FrontEnd,
        RefCount, TradeCalendar, Tools, AccountRecovery

VARIABLE part     \* the component that runs

servicesVars == <<part, groupsVars, myVars, dbVars, basicVars, infoVars,
                  frontVars, rcVars, calVars, toolVars, recVars>>

Parts == {"groups", "mysqlpool", "dbsql", "basics", "realinfo", "log", "front",
          "refcount", "calendar", "tools", "recovery"}

ServicesInit ==
  /\ part \in Parts
  /\ GroupsInit /\ MyInit /\ DbInit /\ BasicInit /\ FrontInit /\ RcInit
  /\ CalInit /\ ToolsInit /\ RecoveryInit
  /\ InfoInit /\ (part # "realinfo" => infoMarket = {})

-----------------------------------------------------------------------------
GroupsPart ==
  /\ part = "groups" /\ GroupsNext
  /\ UNCHANGED <<part, myVars, dbVars, basicVars, infoVars, rcVars, calVars,
       toolVars, recVars, frontOnly, logVars>>

MyPart ==
  /\ part = "mysqlpool" /\ MyNext
  /\ UNCHANGED <<part, groupsVars, dbVars, basicVars, infoVars, rcVars,
       calVars, toolVars, recVars, frontOnly, logVars>>

DbPart ==
  /\ part = "dbsql" /\ DbNext
  /\ UNCHANGED <<part, groupsVars, myVars, basicVars, infoVars, rcVars,
       calVars, toolVars, recVars, frontOnly, logVars>>

BasicPart ==
  /\ part = "basics" /\ BasicNext
  /\ UNCHANGED <<part, groupsVars, myVars, dbVars, infoVars, rcVars, calVars,
       toolVars, recVars, frontOnly, logVars>>

InfoPart ==
  /\ part = "realinfo" /\ InfoNext
  /\ UNCHANGED <<part, groupsVars, myVars, dbVars, basicVars, rcVars,
       calVars, toolVars, recVars, frontOnly, logVars>>

LogPart ==
  /\ part = "log" /\ LogNext
  /\ UNCHANGED <<part, groupsVars, myVars, dbVars, basicVars, infoVars,
       rcVars, calVars, toolVars, recVars, frontOnly>>

FrontPart ==
  /\ part = "front" /\ FrontNext
  /\ UNCHANGED <<part, groupsVars, myVars, dbVars, basicVars, infoVars,
       rcVars, calVars, toolVars, recVars>>

RcPart ==
  /\ part = "refcount" /\ RcNext
  /\ UNCHANGED <<part, groupsVars, myVars, dbVars, basicVars, infoVars,
       calVars, toolVars, recVars, frontOnly, logVars>>

CalPart ==
  /\ part = "calendar" /\ CalNext
  /\ UNCHANGED <<part, groupsVars, myVars, dbVars, basicVars, infoVars,
       rcVars, toolVars, recVars, frontOnly, logVars>>

ToolsPart ==
  /\ part = "tools" /\ ToolsNext
  /\ UNCHANGED <<part, groupsVars, myVars, dbVars, basicVars, infoVars,
       rcVars, calVars, recVars, frontOnly, logVars>>

RecoveryPart ==
  /\ part = "recovery" /\ RecoveryNext
  /\ UNCHANGED <<part, groupsVars, myVars, dbVars, basicVars, infoVars,
       rcVars, calVars, toolVars, frontOnly, logVars>>

-----------------------------------------------------------------------------
ServicesNext ==
  \/ GroupsPart
  \/ MyPart
  \/ DbPart
  \/ BasicPart
  \/ InfoPart
  \/ LogPart
  \/ FrontPart
  \/ RcPart
  \/ CalPart
  \/ ToolsPart
  \/ RecoveryPart

(* Only the front end needs fairness: its process runs.                     *)
ServicesSpec ==
  ServicesInit /\ [][ServicesNext]_servicesVars
    /\ WF_servicesVars(part = "front" /\ FrontWork /\ FrontPart)

(* The types of every component.                                            *)
ServicesTypeOK ==
  /\ GroupsTypeOK /\ MyTypeOK /\ DbTypeOK /\ BasicTypeOK /\ InfoTypeOK
  /\ FrontTypeOK /\ RcTypeOK /\ CalTypeOK /\ RecoveryTypeOK

-----------------------------------------------------------------------------
(* Values of the constants.                                                 *)
SectLine(sect) == <<"[", sect, "]">>
Assigns(key, val) == <<" ", key, " ", "=", " ", val>>
PoolLines(sect, host) ==
  <<SectLine(sect), Assigns("host", host), Assigns("pool_size", "1"),
    Assigns("pool_size", "3")>>

(* A complete file, and one without a host.                                 *)
MCFiles ==
  {PoolLines("mysql1", "h1") \o PoolLines("mysql2", "h2"),
   <<SectLine("mysql1"), Assigns("pool_size", "1")>>}

MCIndexCodes == <<"sh", "sz">>

MCOwner == [h \in Handles |-> IF h = "h1" THEN "rt1" ELSE "rt2"]

(* Month ends of leap years and others, and the holidays around them.       *)
MCDates == (20160227 .. 20160229) \cup (20160301 .. 20160303)
           \cup (20160929 .. 20160930) \cup (20161001 .. 20161010)
           \cup (20161229 .. 20161231) \cup (20170101 .. 20170104)
           \cup (20170225 .. 20170228) \cup (20170301 .. 20170303)
           \cup (20210225 .. 20210228) \cup (20210301 .. 20210303)

MCToolCodes == {<<"1", "1">>, <<"1", "2">>, <<"2", "1">>}
=============================================================================
