--------------------------- MODULE GpuBackendProofs ---------------------------
(***************************************************************************)
(* Proofs about GpuBackend, for any set of keys: GpuInv is inductive.      *)
(* Each action has a lemma with a step for each part of GpuInv.            *)
(***************************************************************************)
EXTENDS GpuBackend, TLAPS

(* Nothing is held, and nothing is known to be on the device, at first.    *)
LEMMA InitInv == Init => GpuInv
<1>. SUFFICES ASSUME Init PROVE GpuInv
  OBVIOUS
<1>1. TypeOK
  <2>1. /\ module \in BOOLEAN /\ stream \in BOOLEAN /\ event \in BOOLEAN
        /\ hostTables \in BOOLEAN /\ tablesLost \in BOOLEAN /\ lastError \in BOOLEAN
        /\ ownFailure \in BOOLEAN /\ exited \in BOOLEAN /\ usedTables \in BOOLEAN
    BY Zenon DEF Init
  <2>. QED BY <2>1 DEF Init, TypeOK, Places, Kinds, Content, Uses, Bufs
<1>2. LoaderInv /\ BuffersInv /\ TablesInv
  BY DEF Init, LoaderInv, BuffersInv, TablesInv, Loaded, TablesThere, Making
<1>3. KeysInv
  BY DEF Init, KeysInv, Uses, Making, Logn
<1>4. OwnKeyUsed /\ TablesUsed /\ LeftoverReportedOnce
  BY DEF Init, OwnKeyUsed, TablesUsed, LeftoverReportedOnce, Succeeded
<1>. QED BY <1>1, <1>2, <1>3, <1>4 DEF GpuInv

(* Every exit frees and unregisters what the call holds when it gets there. *)
LEMMA AllFreed ==
  ASSUME GpuInv, NEW exit,
         pc = "launch" \/ ~Making \/ exit \notin {"launch", "record"}
  PROVE  buffers \ Freed(exit) = {} /\ registered \ Unregistered(exit) = {}
<1>1. buffers \subseteq Bufs /\ registered \subseteq Bufs
  BY DEF GpuInv, TypeOK
<1>2. CASE Making /\ exit \in {"launch", "record"}
  BY <1>1, <1>2 DEF GpuInv, BuffersInv, Freed, Unregistered
<1>3. CASE ~(Making /\ exit \in {"launch", "record"})
  BY <1>1, <1>3 DEF Freed, Unregistered
<1>. QED BY <1>2, <1>3

(* A call begins.                                                          *)
LEMMA CallInv ==
  ASSUME GpuInv, NEW c \in Kinds, NEW k \in Keys, Call(c, k)
  PROVE  GpuInv'
<1>1. TypeOK'
  <2>1. ownFailure' \in BOOLEAN /\ exited' \in BOOLEAN /\ usedTables' \in BOOLEAN
    BY Zenon DEF Call
  <2>. QED BY <2>1 DEF GpuInv, Call, TypeOK, LoaderInv, KeysInv, Places, Content, Bufs,
                       Kinds, Verifies, Generate, Uses, Tables, loaderVars, syncVars,
                       tableVars, keyVars, bufferVars
<1>2. LoaderInv'
  BY SMTT(20) DEF GpuInv, Call, LoaderInv, TypeOK, Loaded, Making, Kinds, Verifies,
                  Generate, loaderVars, syncVars, tableVars, keyVars, bufferVars
<1>3. BuffersInv'
  BY SMTT(20) DEF GpuInv, Call, BuffersInv, LoaderInv, TypeOK, Bufs, Making, Loaded,
                  Generate, loaderVars, syncVars, tableVars, keyVars, bufferVars
<1>4. TablesInv'
  BY SMTT(20) DEF GpuInv, Call, TablesInv, LoaderInv, TypeOK, TablesThere, Tables,
                  Making, Generate, loaderVars, syncVars, tableVars, keyVars, bufferVars
<1>5. KeysInv'
  BY SMTT(20) DEF GpuInv, Call, KeysInv, LoaderInv, TypeOK, Use, Uses, Making,
                  Generate, Verifies, Kinds, loaderVars, syncVars, tableVars, keyVars,
                  bufferVars
<1>6. OwnKeyUsed' /\ TablesUsed' /\ LeftoverReportedOnce'
  BY SMTT(20) DEF GpuInv, Call, OwnKeyUsed, TablesUsed, LeftoverReportedOnce,
                  Succeeded, KeysInv, TablesInv, LoaderInv, TypeOK, Making, Generate,
                  Verifies, Kinds, loaderVars, syncVars, tableVars, keyVars, bufferVars
<1>. QED BY <1>1, <1>2, <1>3, <1>4, <1>5, <1>6 DEF GpuInv

(* The library is loaded, or not.                                          *)
LEMMA LoadInv ==
  ASSUME GpuInv, Load
  PROVE  GpuInv'
<1>1. TypeOK'
  <2>. PICK i \in 0 .. 5 : Load!(i)
    BY DEF Load
  <2>1. ownFailure' \in BOOLEAN /\ exited' \in BOOLEAN
    BY Zenon DEF Goto, Return, OtherFailure, GpuInv, TypeOK, errorVars, endVars
  <2>2. functions' \subseteq Kinds
    <3>1. \A j \in 1 .. i - 1 : j = 1 \/ j = 2 \/ j = 3 \/ j = 4
      OBVIOUS
    <3>. QED BY <3>1 DEF Symbols, Kinds, Verifies
  <2>3. /\ loader' \in {0, 1, -101, -102, -104, -105, -106}
        /\ module' \in BOOLEAN
    BY DEF LoaderAfter
  <2>4. /\ pc' \in Places /\ status' \in {"none", "ok", "failed"} /\ lastError' \in BOOLEAN
    BY DEF Return, Goto, Start, Places, OtherFailure, GpuInv, TypeOK, errorVars, endVars
  <2>. QED BY <2>1, <2>2, <2>3, <2>4 DEF GpuInv, TypeOK, syncVars, tableVars, keyVars, callVars,
            bufferVars, usedVars
<1>2. LoaderInv'
  <2>. PICK i \in 0 .. 5 : Load!(i)
    BY DEF Load
  <2>1. /\ pc = "load" /\ loader = 0 /\ loader' = LoaderAfter(i) /\ module' = (i = 5)
        /\ functions' = {Symbols[j] : j \in 1 .. i - 1} /\ UNCHANGED kind
    BY DEF callVars
  <2>2. loader' = 1 => i = 5
    BY <2>1 DEF LoaderAfter
  <2>3. i = 5 => loader' = 1 /\ functions' = Kinds
    BY <2>1 DEF Symbols, Kinds, Generate, Verifies, LoaderAfter
  <2>4. pc' = "idle" \/ (i = 5 /\ pc' = Start)
    BY DEF Return, Goto
  <2>5. (Start = "reset" <=> kind = "reset") /\ (Start = "reset" \/ Start = "setup")
    BY DEF Start
  <2>. QED BY <2>1, <2>2, <2>3, <2>4, <2>5 DEF LoaderInv, Loaded, Making
<1>3. BuffersInv'
  BY SMTT(20) DEF GpuInv, Load, Start, LoaderAfter, Symbols, Return, Goto, Exits,
                  OtherFailure, BuffersInv, LoaderInv, TypeOK, Bufs, Making, Loaded,
                  Generate, syncVars, tableVars, keyVars, callVars, bufferVars,
                  errorVars, endVars, usedVars, Tables, Verifies, Uses
<1>4. TablesInv'
  BY SMTT(20) DEF GpuInv, Load, Start, LoaderAfter, Symbols, Return, Goto, Exits,
                  OtherFailure, TablesInv, LoaderInv, TypeOK, TablesThere, Tables,
                  Making, Generate, syncVars, tableVars, keyVars, callVars, bufferVars,
                  errorVars, endVars, usedVars, Verifies, Uses
<1>5. KeysInv'
  <2>1. /\ pc = "load" /\ pc' \in {"idle", "reset", "setup"}
        /\ UNCHANGED <<deviceKey, hash, cachedLogn, key>>
    BY DEF Load, Return, Goto, Start, keyVars, callVars
  <2>2. pc' # "idle" => UNCHANGED <<status, exited>>
    BY DEF Load, Return, Goto, endVars
  <2>. QED BY <2>1, <2>2 DEF GpuInv, KeysInv
<1>6. OwnKeyUsed' /\ TablesUsed' /\ LeftoverReportedOnce'
  BY SMTT(20) DEF GpuInv, Load, Start, LoaderAfter, Symbols, Return, Goto, Exits,
                  OtherFailure, OwnKeyUsed, TablesUsed, LeftoverReportedOnce,
                  Succeeded, KeysInv, TablesInv, LoaderInv, TypeOK, Making, Generate,
                  Verifies, Kinds, syncVars, tableVars, keyVars, callVars, bufferVars,
                  errorVars, endVars, usedVars, Tables, Uses
<1>. QED BY <1>1, <1>2, <1>3, <1>4, <1>5, <1>6 DEF GpuInv

(* It was loaded before, or not.                                           *)
LEMMA LoadedBeforeInv ==
  ASSUME GpuInv, LoadedBefore
  PROVE  GpuInv'
<1>1. TypeOK'
  <2>1. ownFailure' \in BOOLEAN /\ exited' \in BOOLEAN
    BY Zenon DEF LoadedBefore, Goto, Return, OtherFailure, GpuInv, TypeOK, errorVars, endVars
  <2>. QED BY <2>1 DEF GpuInv, LoadedBefore, Start, Return, Goto, Exits, OtherFailure,
                       TypeOK, LoaderInv, KeysInv, Places, Content, Bufs, Kinds,
                       Verifies, Generate, Uses, Tables, loaderVars, syncVars,
                       tableVars, keyVars, callVars, bufferVars, errorVars, endVars,
                       usedVars, Loaded
<1>2. LoaderInv'
  BY SMTT(20) DEF GpuInv, LoadedBefore, Start, Return, Goto, Exits, OtherFailure,
                  LoaderInv, TypeOK, Loaded, Making, Kinds, Verifies, Generate,
                  loaderVars, syncVars, tableVars, keyVars, callVars, bufferVars,
                  errorVars, endVars, usedVars
<1>3. BuffersInv'
  BY SMTT(20) DEF GpuInv, LoadedBefore, Start, Return, Goto, Exits, OtherFailure,
                  BuffersInv, LoaderInv, TypeOK, Bufs, Making, Loaded, Generate,
                  loaderVars, syncVars, tableVars, keyVars, callVars, bufferVars,
                  errorVars, endVars, usedVars, Verifies
<1>4. TablesInv'
  BY SMTT(20) DEF GpuInv, LoadedBefore, Start, Return, Goto, Exits, OtherFailure,
                  TablesInv, LoaderInv, TypeOK, TablesThere, Tables, Making, Generate,
                  loaderVars, syncVars, tableVars, keyVars, callVars, bufferVars,
                  errorVars, endVars, usedVars, Loaded, Verifies
<1>5. KeysInv'
  BY SMTT(20) DEF GpuInv, LoadedBefore, Start, Return, Goto, Exits, OtherFailure,
                  KeysInv, LoaderInv, TypeOK, Use, Uses, Making, Generate, Verifies,
                  Kinds, loaderVars, syncVars, tableVars, keyVars, callVars,
                  bufferVars, errorVars, endVars, usedVars, Loaded
<1>6. OwnKeyUsed' /\ TablesUsed' /\ LeftoverReportedOnce'
  BY SMTT(20) DEF GpuInv, LoadedBefore, Start, Return, Goto, Exits, OtherFailure,
                  OwnKeyUsed, TablesUsed, LeftoverReportedOnce, Succeeded, KeysInv,
                  TablesInv, LoaderInv, TypeOK, Making, Generate, Verifies, Kinds,
                  loaderVars, syncVars, tableVars, keyVars, callVars, bufferVars,
                  errorVars, endVars, usedVars, Loaded
<1>. QED BY <1>1, <1>2, <1>3, <1>4, <1>5, <1>6 DEF GpuInv

(* Stream and event.                                                       *)
LEMMA SetupInv ==
  ASSUME GpuInv, Setup
  PROVE  GpuInv'
<1>1. TypeOK'
  <2>1. exited' \in BOOLEAN
    BY Zenon DEF Setup, Goto, Return, GpuInv, TypeOK, endVars
  <2>. QED BY <2>1 DEF GpuInv, Setup, Cuda, Return, Goto, Exits, TypeOK, LoaderInv,
                       KeysInv, Places, Content, Bufs, Kinds, Verifies, Generate, Uses,
                       Tables, loaderVars, tableVars, keyVars, callVars, bufferVars,
                       endVars, usedVars
<1>2. LoaderInv'
  BY SMTT(20) DEF GpuInv, Setup, Cuda, Return, Goto, Exits, LoaderInv, TypeOK, Loaded,
                  Making, Kinds, Verifies, Generate, loaderVars, tableVars, keyVars,
                  callVars, bufferVars, endVars, usedVars
<1>3. BuffersInv'
  BY SMTT(20) DEF GpuInv, Setup, Cuda, Return, Goto, Exits, BuffersInv, LoaderInv,
                  TypeOK, Bufs, Making, Loaded, Generate, loaderVars, tableVars,
                  keyVars, callVars, bufferVars, endVars, usedVars, Verifies
<1>4. TablesInv'
  BY SMTT(20) DEF GpuInv, Setup, Cuda, Return, Goto, Exits, TablesInv, LoaderInv,
                  TypeOK, TablesThere, Tables, Making, Generate, loaderVars, tableVars,
                  keyVars, callVars, bufferVars, endVars, usedVars, Verifies
<1>5. KeysInv'
  BY SMTT(20) DEF GpuInv, Setup, Cuda, Return, Goto, Exits, KeysInv, LoaderInv, TypeOK,
                  Use, Uses, Making, Generate, Verifies, Kinds, loaderVars, tableVars,
                  keyVars, callVars, bufferVars, endVars, usedVars
<1>6. OwnKeyUsed' /\ TablesUsed' /\ LeftoverReportedOnce'
  BY SMTT(20) DEF GpuInv, Setup, Cuda, Return, Goto, Exits, OwnKeyUsed, TablesUsed,
                  LeftoverReportedOnce, Succeeded, KeysInv, TablesInv, LoaderInv,
                  TypeOK, Making, Generate, Verifies, Kinds, loaderVars, tableVars,
                  keyVars, callVars, bufferVars, endVars, usedVars
<1>. QED BY <1>1, <1>2, <1>3, <1>4, <1>5, <1>6 DEF GpuInv

(* No memory for the tables.                                               *)
LEMMA NoHostTablesInv ==
  ASSUME GpuInv, NoHostTables
  PROVE  GpuInv'
<1>1. TypeOK'
  BY SMTT(20) DEF GpuInv, NoHostTables, OtherFailure, Return, Exits, TypeOK, LoaderInv,
                  KeysInv, Places, Content, Bufs, Kinds, Verifies, Generate, Uses,
                  Tables, loaderVars, syncVars, tableVars, keyVars, callVars,
                  bufferVars, usedVars
<1>2. LoaderInv'
  BY SMTT(20) DEF GpuInv, NoHostTables, OtherFailure, Return, Exits, LoaderInv, TypeOK,
                  Loaded, Making, Kinds, Verifies, Generate, loaderVars, syncVars,
                  tableVars, keyVars, callVars, bufferVars, usedVars
<1>3. BuffersInv'
  BY SMTT(20) DEF GpuInv, NoHostTables, OtherFailure, Return, Exits, BuffersInv,
                  LoaderInv, TypeOK, Bufs, Making, Loaded, Generate, loaderVars,
                  syncVars, tableVars, keyVars, callVars, bufferVars, usedVars, Verifies
<1>4. TablesInv'
  BY SMTT(20) DEF GpuInv, NoHostTables, OtherFailure, Return, Exits, TablesInv,
                  LoaderInv, TypeOK, TablesThere, Tables, Making, Generate, loaderVars,
                  syncVars, tableVars, keyVars, callVars, bufferVars, usedVars, Verifies
<1>5. KeysInv'
  BY SMTT(20) DEF GpuInv, NoHostTables, OtherFailure, Return, Exits, KeysInv,
                  LoaderInv, TypeOK, Use, Uses, Making, Generate, Verifies, Kinds,
                  loaderVars, syncVars, tableVars, keyVars, callVars, bufferVars,
                  usedVars
<1>6. OwnKeyUsed' /\ TablesUsed' /\ LeftoverReportedOnce'
  BY SMTT(20) DEF GpuInv, NoHostTables, OtherFailure, Return, Exits, OwnKeyUsed,
                  TablesUsed, LeftoverReportedOnce, Succeeded, KeysInv, TablesInv,
                  LoaderInv, TypeOK, Making, Generate, Verifies, Kinds, loaderVars,
                  syncVars, tableVars, keyVars, callVars, bufferVars, usedVars
<1>. QED BY <1>1, <1>2, <1>3, <1>4, <1>5, <1>6 DEF GpuInv

(* The tables are there.                                                   *)
LEMMA KeepTablesInv ==
  ASSUME GpuInv, KeepTables
  PROVE  GpuInv'
<1>1. TypeOK'
  BY SMTT(20) DEF GpuInv, KeepTables, ForgetKey, Goto, TypeOK, LoaderInv, KeysInv,
                  Places, Content, Bufs, Kinds, Verifies, Generate, Uses, Tables,
                  loaderVars, syncVars, callVars, bufferVars, errorVars, endVars,
                  usedVars, TablesThere
<1>2. LoaderInv'
  BY SMTT(20) DEF GpuInv, KeepTables, ForgetKey, Goto, LoaderInv, TypeOK, Loaded,
                  Making, Kinds, Verifies, Generate, loaderVars, syncVars, callVars,
                  bufferVars, errorVars, endVars, usedVars, TablesThere, Tables
<1>3. BuffersInv'
  BY SMTT(20) DEF GpuInv, KeepTables, ForgetKey, Goto, BuffersInv, LoaderInv, TypeOK,
                  Bufs, Making, Loaded, Generate, loaderVars, syncVars, callVars,
                  bufferVars, errorVars, endVars, usedVars, TablesThere, Tables
<1>4. TablesInv'
  BY SMTT(20) DEF GpuInv, KeepTables, ForgetKey, Goto, TablesInv, LoaderInv, TypeOK,
                  TablesThere, Tables, Making, Generate, loaderVars, syncVars,
                  callVars, bufferVars, errorVars, endVars, usedVars
<1>5. KeysInv'
  BY SMTT(20) DEF GpuInv, KeepTables, ForgetKey, Goto, KeysInv, LoaderInv, TypeOK, Use,
                  Uses, Making, Generate, Verifies, Kinds, loaderVars, syncVars,
                  callVars, bufferVars, errorVars, endVars, usedVars, TablesThere,
                  Tables
<1>6. OwnKeyUsed' /\ TablesUsed' /\ LeftoverReportedOnce'
  BY SMTT(20) DEF GpuInv, KeepTables, ForgetKey, Goto, OwnKeyUsed, TablesUsed,
                  LeftoverReportedOnce, Succeeded, KeysInv, TablesInv, LoaderInv,
                  TypeOK, Making, Generate, Verifies, Kinds, loaderVars, syncVars,
                  callVars, bufferVars, errorVars, endVars, usedVars, TablesThere,
                  Tables
<1>. QED BY <1>1, <1>2, <1>3, <1>4, <1>5, <1>6 DEF GpuInv

(* The tables are copied; an unchecked failure shows in lastError, and in  *)
(* tablesLost where it leaves a table raw.                                 *)
LEMMA CopyTablesInv ==
  ASSUME GpuInv, CopyTables
  PROVE  GpuInv'
<1>1. TypeOK'
  BY SMTT(20) DEF GpuInv, CopyTables, ForgetKey, Cuda, Goto, TypeOK, LoaderInv,
                  KeysInv, Places, Content, Bufs, Kinds, Verifies, Generate, Uses,
                  Tables, loaderVars, syncVars, callVars, bufferVars, endVars,
                  usedVars, TablesThere
<1>2. LoaderInv'
  BY SMTT(20) DEF GpuInv, CopyTables, ForgetKey, Cuda, Goto, LoaderInv, TypeOK, Loaded,
                  Making, Kinds, Verifies, Generate, loaderVars, syncVars, callVars,
                  bufferVars, endVars, usedVars, TablesThere, Tables
<1>3. BuffersInv'
  BY SMTT(20) DEF GpuInv, CopyTables, ForgetKey, Cuda, Goto, BuffersInv, LoaderInv,
                  TypeOK, Bufs, Making, Loaded, Generate, loaderVars, syncVars,
                  callVars, bufferVars, endVars, usedVars, TablesThere, Tables
<1>4. TablesInv'
  <2>. PICK room \in SUBSET Tables, copied \in SUBSET Tables : CopyTables!(room, copied)
    BY DEF CopyTables
  <2>1. copied \subseteq room /\ {t \in Tables : table[t] # "null"} \subseteq room
    OBVIOUS
  <2>2. /\ table' = [t \in Tables |-> IF t \in copied THEN "good"
                                     ELSE IF t \in room /\ table[t] = "null" THEN "raw"
                                     ELSE table[t]]
        /\ tablesLost' = (tablesLost \/ copied # room)
        /\ lastError' = (lastError \/ copied # Tables) /\ pc' = "key"
    BY DEF Cuda, Goto
  <2>3. ASSUME ~tablesLost' PROVE \A t \in Tables : table'[t] # "raw"
    BY <2>1, <2>2, <2>3 DEF GpuInv, TablesInv, TypeOK
  <2>4. lastError' \/ \A t \in Tables : table'[t] # "null"
    BY <2>1, <2>2
  <2>. QED BY <2>2, <2>3, <2>4 DEF TablesInv, TablesThere
<1>5. KeysInv'
  BY SMTT(20) DEF GpuInv, CopyTables, ForgetKey, Cuda, Goto, KeysInv, LoaderInv,
                  TypeOK, Use, Uses, Making, Generate, Verifies, Kinds, loaderVars,
                  syncVars, callVars, bufferVars, endVars, usedVars, TablesThere, Tables
<1>6. OwnKeyUsed' /\ TablesUsed' /\ LeftoverReportedOnce'
  BY SMTT(20) DEF GpuInv, CopyTables, ForgetKey, Cuda, Goto, OwnKeyUsed, TablesUsed,
                  LeftoverReportedOnce, Succeeded, KeysInv, TablesInv, LoaderInv,
                  TypeOK, Making, Generate, Verifies, Kinds, loaderVars, syncVars,
                  callVars, bufferVars, endVars, usedVars, TablesThere, Tables
<1>. QED BY <1>1, <1>2, <1>3, <1>4, <1>5, <1>6 DEF GpuInv

(* The key is there: the hash is not to be trusted only in a verification  *)
(* that is going to fail.                                                  *)
LEMMA KeepKeyInv ==
  ASSUME GpuInv, KeepKey
  PROVE  GpuInv'
<1>1. TypeOK'
  BY SMTT(20) DEF GpuInv, KeepKey, KeyThere, Goto, TypeOK, LoaderInv, KeysInv, Places,
                  Content, Bufs, Kinds, Verifies, Generate, Uses, Tables, loaderVars,
                  syncVars, tableVars, keyVars, callVars, bufferVars, errorVars,
                  endVars, usedVars, Use, Making
<1>2. LoaderInv'
  BY SMTT(20) DEF GpuInv, KeepKey, KeyThere, Goto, LoaderInv, TypeOK, Loaded, Making,
                  Kinds, Verifies, Generate, loaderVars, syncVars, tableVars, keyVars,
                  callVars, bufferVars, errorVars, endVars, usedVars, Use
<1>3. BuffersInv'
  BY SMTT(20) DEF GpuInv, KeepKey, KeyThere, Goto, BuffersInv, LoaderInv, TypeOK, Bufs,
                  Making, Loaded, Generate, loaderVars, syncVars, tableVars, keyVars,
                  callVars, bufferVars, errorVars, endVars, usedVars, Use
<1>4. TablesInv'
  BY SMTT(20) DEF GpuInv, KeepKey, KeyThere, Goto, TablesInv, LoaderInv, TypeOK,
                  TablesThere, Tables, Making, Generate, loaderVars, syncVars,
                  tableVars, keyVars, callVars, bufferVars, errorVars, endVars,
                  usedVars, Use
<1>5. KeysInv'
  <2>1. ~exited /\ deviceKey[Use] = key
    BY SMT DEF GpuInv, KeepKey, KeyThere, KeysInv, TypeOK, Use, Making, Kinds, Verifies,
               Generate, Uses, Logn
  <2>2. /\ UNCHANGED <<deviceKey, hash, cachedLogn, kind, key, lastError, status, exited>>
        /\ pc' = "alloc" /\ pc = "key"
    BY DEF KeepKey, Goto, keyVars, callVars, errorVars, endVars
  <2>3. UNCHANGED <<Use, Making>>
    BY <2>2 DEF Use, Making
  <2>. QED BY <2>1, <2>2, <2>3, SMT DEF GpuInv, KeysInv
<1>6. OwnKeyUsed' /\ TablesUsed' /\ LeftoverReportedOnce'
  <2>1. UNCHANGED status /\ pc # "idle"
    BY DEF KeepKey, Goto, endVars
  <2>2. status = "none"
    BY <2>1 DEF GpuInv, KeysInv
  <2>. QED BY <2>1, <2>2 DEF OwnKeyUsed, TablesUsed, LeftoverReportedOnce, Succeeded
<1>. QED BY <1>1, <1>2, <1>3, <1>4, <1>5, <1>6 DEF GpuInv

(* The key is copied; an unchecked failure shows in lastError.             *)
LEMMA CopyKeyInv ==
  ASSUME GpuInv, CopyKey
  PROVE  GpuInv'
<1>1. TypeOK'
  <2>1. key \in Keys
    BY DEF CopyKey, GpuInv, KeysInv
  <2>. QED BY <2>1, SMTT(20) DEF GpuInv, CopyKey, KeyThere, Cuda, Goto, TypeOK,
                       LoaderInv, KeysInv, Places, Content, Bufs, Kinds, Verifies,
                       Generate, Uses, Tables, loaderVars, syncVars, tableVars,
                       callVars, bufferVars, endVars, usedVars, Use, Making
<1>2. LoaderInv'
  BY SMTT(20) DEF GpuInv, CopyKey, KeyThere, Cuda, Goto, LoaderInv, TypeOK, Loaded,
                  Making, Kinds, Verifies, Generate, loaderVars, syncVars, tableVars,
                  callVars, bufferVars, endVars, usedVars, Use
<1>3. BuffersInv'
  BY SMTT(20) DEF GpuInv, CopyKey, KeyThere, Cuda, Goto, BuffersInv, LoaderInv, TypeOK,
                  Bufs, Making, Loaded, Generate, loaderVars, syncVars, tableVars,
                  callVars, bufferVars, endVars, usedVars, Use
<1>4. TablesInv'
  BY SMTT(20) DEF GpuInv, CopyKey, KeyThere, Cuda, Goto, TablesInv, LoaderInv, TypeOK,
                  TablesThere, Tables, Making, Generate, loaderVars, syncVars,
                  tableVars, callVars, bufferVars, endVars, usedVars, Use
<1>5. KeysInv'
  <2>. PICK room \in BOOLEAN, copied \in BOOLEAN : CopyKey!(room, copied)
    BY DEF CopyKey
  <2>1. /\ pc = "key" /\ pc' = "alloc" /\ key \in Keys /\ status = "none" /\ ~exited
        /\ UNCHANGED <<status, exited, kind, key, usedKey>>
    BY DEF Goto, endVars, callVars, usedVars, GpuInv, KeysInv
  <2>2. /\ Use \in Uses /\ (Use = "making" <=> Making) /\ (Use = "verifying" <=> ~Making)
        /\ Use' = Use /\ (Making <=> Making')
    BY <2>1 DEF Use, Uses, Making
  <2>3. /\ deviceKey'[Use] = IF copied THEN key ELSE IF room THEN "raw" ELSE "null"
        /\ hash'[Use] = key
        /\ \A u \in Uses \ {Use} : /\ deviceKey'[u] = deviceKey[u] /\ hash'[u] = hash[u]
                                  /\ cachedLogn'[u] = cachedLogn[u]
    BY <2>2 DEF GpuInv, TypeOK
  <2>4. lastError' = (lastError \/ ~copied)
    BY DEF Cuda
  <2>5. Making => (cachedLogn'.verifying = Logn /\ deviceKey'.verifying # "null" =>
                     deviceKey'.verifying = hash'.verifying)
    BY <2>1, <2>2, <2>3 DEF GpuInv, KeysInv, Uses
  <2>6. CASE copied
    BY <2>1, <2>2, <2>3, <2>5, <2>6 DEF KeysInv
  <2>7. CASE ~copied
    BY <2>1, <2>2, <2>3, <2>4, <2>5, <2>7 DEF KeysInv
  <2>. QED BY <2>6, <2>7
<1>6. OwnKeyUsed' /\ TablesUsed' /\ LeftoverReportedOnce'
  BY SMTT(20) DEF GpuInv, CopyKey, KeyThere, Cuda, Goto, OwnKeyUsed, TablesUsed,
                  LeftoverReportedOnce, Succeeded, KeysInv, TablesInv, LoaderInv,
                  TypeOK, Making, Generate, Verifies, Kinds, loaderVars, syncVars,
                  tableVars, callVars, bufferVars, endVars, usedVars, Use
<1>. QED BY <1>1, <1>2, <1>3, <1>4, <1>5, <1>6 DEF GpuInv

(* No memory for the transformed key.                                      *)
LEMMA NoHostKeyInv ==
  ASSUME GpuInv, NoHostKey
  PROVE  GpuInv'
<1>1. TypeOK'
  BY SMTT(20) DEF GpuInv, NoHostKey, KeyThere, Return, Exits, TypeOK, LoaderInv,
                  KeysInv, Places, Content, Bufs, Kinds, Verifies, Generate, Uses,
                  Tables, loaderVars, syncVars, tableVars, callVars, bufferVars,
                  usedVars, Making, Use
<1>2. LoaderInv'
  BY SMTT(20) DEF GpuInv, NoHostKey, KeyThere, Return, Exits, LoaderInv, TypeOK,
                  Loaded, Making, Kinds, Verifies, Generate, loaderVars, syncVars,
                  tableVars, callVars, bufferVars, usedVars, Use
<1>3. BuffersInv'
  BY SMTT(20) DEF GpuInv, NoHostKey, KeyThere, Return, Exits, BuffersInv, LoaderInv,
                  TypeOK, Bufs, Making, Loaded, Generate, loaderVars, syncVars,
                  tableVars, callVars, bufferVars, usedVars, Use, Verifies
<1>4. TablesInv'
  BY SMTT(20) DEF GpuInv, NoHostKey, KeyThere, Return, Exits, TablesInv, LoaderInv,
                  TypeOK, TablesThere, Tables, Making, Generate, loaderVars, syncVars,
                  tableVars, callVars, bufferVars, usedVars, Use, Verifies
<1>5. KeysInv'
  BY SMTT(20) DEF GpuInv, NoHostKey, KeyThere, Return, Exits, KeysInv, LoaderInv,
                  TypeOK, Use, Uses, Making, Generate, Verifies, Kinds, loaderVars,
                  syncVars, tableVars, callVars, bufferVars, usedVars
<1>6. OwnKeyUsed' /\ TablesUsed' /\ LeftoverReportedOnce'
  BY SMTT(20) DEF GpuInv, NoHostKey, KeyThere, Return, Exits, OwnKeyUsed, TablesUsed,
                  LeftoverReportedOnce, Succeeded, KeysInv, TablesInv, LoaderInv,
                  TypeOK, Making, Generate, Verifies, Kinds, loaderVars, syncVars,
                  tableVars, callVars, bufferVars, usedVars, Use
<1>. QED BY <1>1, <1>2, <1>3, <1>4, <1>5, <1>6 DEF GpuInv

(* Buffers.                                                                *)
LEMMA AllocateInv ==
  ASSUME GpuInv, Allocate
  PROVE  GpuInv'
<1>1. TypeOK'
  <2>1. exited' \in BOOLEAN
    BY Zenon DEF Allocate, Goto, Return, GpuInv, TypeOK, endVars
  <2>. QED BY <2>1 DEF GpuInv, Allocate, FreedOnFailure, Cuda, Goto, Return, Exits,
                       TypeOK, LoaderInv, KeysInv, Places, Content, Bufs, Kinds,
                       Verifies, Generate, Uses, Tables, loaderVars, syncVars,
                       tableVars, keyVars, callVars, endVars, usedVars, Making
<1>2. LoaderInv'
  BY SMTT(20) DEF GpuInv, Allocate, FreedOnFailure, Cuda, Goto, Return, Exits,
                  LoaderInv, TypeOK, Loaded, Making, Kinds, Verifies, Generate,
                  loaderVars, syncVars, tableVars, keyVars, callVars, endVars,
                  usedVars, Bufs
<1>3. BuffersInv'
  BY SMTT(20) DEF GpuInv, Allocate, FreedOnFailure, Cuda, Goto, Return, Exits,
                  BuffersInv, LoaderInv, TypeOK, Bufs, Making, Loaded, Generate,
                  loaderVars, syncVars, tableVars, keyVars, callVars, endVars,
                  usedVars, Verifies
<1>4. TablesInv'
  BY SMTT(20) DEF GpuInv, Allocate, FreedOnFailure, Cuda, Goto, Return, Exits,
                  TablesInv, LoaderInv, TypeOK, TablesThere, Tables, Making, Generate,
                  loaderVars, syncVars, tableVars, keyVars, callVars, endVars,
                  usedVars, Verifies, Bufs
<1>5. KeysInv'
  BY SMTT(20) DEF GpuInv, Allocate, FreedOnFailure, Cuda, Goto, Return, Exits, KeysInv,
                  LoaderInv, TypeOK, Use, Uses, Making, Generate, Verifies, Kinds,
                  loaderVars, syncVars, tableVars, keyVars, callVars, endVars,
                  usedVars, Bufs
<1>6. OwnKeyUsed' /\ TablesUsed' /\ LeftoverReportedOnce'
  BY SMTT(20) DEF GpuInv, Allocate, FreedOnFailure, Cuda, Goto, Return, Exits,
                  OwnKeyUsed, TablesUsed, LeftoverReportedOnce, Succeeded, KeysInv,
                  TablesInv, LoaderInv, TypeOK, Making, Generate, Verifies, Kinds,
                  loaderVars, syncVars, tableVars, keyVars, callVars, endVars,
                  usedVars, Bufs
<1>. QED BY <1>1, <1>2, <1>3, <1>4, <1>5, <1>6 DEF GpuInv

(* Registering.                                                            *)
LEMMA RegisterInv ==
  ASSUME GpuInv, Register
  PROVE  GpuInv'
<1>1. TypeOK'
  BY SMTT(20) DEF GpuInv, Register, Cuda, Goto, TypeOK, LoaderInv, KeysInv, Places,
                  Content, Bufs, Kinds, Verifies, Generate, Uses, Tables, loaderVars,
                  syncVars, tableVars, keyVars, callVars, endVars, usedVars, Making
<1>2. LoaderInv'
  BY SMTT(20) DEF GpuInv, Register, Cuda, Goto, LoaderInv, TypeOK, Loaded, Making,
                  Kinds, Verifies, Generate, loaderVars, syncVars, tableVars, keyVars,
                  callVars, endVars, usedVars
<1>3. BuffersInv'
  BY SMTT(20) DEF GpuInv, Register, Cuda, Goto, BuffersInv, LoaderInv, TypeOK, Bufs,
                  Making, Loaded, Generate, loaderVars, syncVars, tableVars, keyVars,
                  callVars, endVars, usedVars
<1>4. TablesInv'
  BY SMTT(20) DEF GpuInv, Register, Cuda, Goto, TablesInv, LoaderInv, TypeOK,
                  TablesThere, Tables, Making, Generate, loaderVars, syncVars,
                  tableVars, keyVars, callVars, endVars, usedVars
<1>5. KeysInv'
  BY SMTT(20) DEF GpuInv, Register, Cuda, Goto, KeysInv, LoaderInv, TypeOK, Use, Uses,
                  Making, Generate, Verifies, Kinds, loaderVars, syncVars, tableVars,
                  keyVars, callVars, endVars, usedVars
<1>6. OwnKeyUsed' /\ TablesUsed' /\ LeftoverReportedOnce'
  BY SMTT(20) DEF GpuInv, Register, Cuda, Goto, OwnKeyUsed, TablesUsed,
                  LeftoverReportedOnce, Succeeded, KeysInv, TablesInv, LoaderInv,
                  TypeOK, Making, Generate, Verifies, Kinds, loaderVars, syncVars,
                  tableVars, keyVars, callVars, endVars, usedVars
<1>. QED BY <1>1, <1>2, <1>3, <1>4, <1>5, <1>6 DEF GpuInv

(* The banks are copied to the device.                                     *)
LEMMA CopyInInv ==
  ASSUME GpuInv, CopyIn
  PROVE  GpuInv'
<1>0. \/ UNCHANGED <<buffers, registered>> /\ pc' = "launch"
      \/ buffers' = {} /\ registered' = {} /\ pc' = "idle"
  <2>1. ~Making
    BY DEF GpuInv, LoaderInv, CopyIn
  <2>2. \A exit : buffers \ Freed(exit) = {} /\ registered \ Unregistered(exit) = {}
    BY <2>1, AllFreed
  <2>. QED BY <2>2 DEF CopyIn, Release, Return, Goto, bufferVars
<1>1. TypeOK'
  <2>1. buffers' \subseteq Bufs /\ registered' \subseteq Bufs
    BY <1>0 DEF GpuInv, TypeOK
  <2>2. pc' \in Places
    BY <1>0 DEF Places
  <2>3. /\ lastError' \in BOOLEAN /\ ownFailure' \in BOOLEAN /\ usedTables' \in BOOLEAN
        /\ exited' \in BOOLEAN
    BY Zenon DEF GpuInv, CopyIn, Cuda, Release, Return, Goto, LeftAfterCheck, TypeOK,
                 endVars, usedVars
  <2>4. status' \in {"none", "ok", "failed"}
    BY DEF GpuInv, CopyIn, Release, Return, Goto, TypeOK, endVars
  <2>5. usedKey' \in Content \cup {NoKey}
    BY DEF GpuInv, CopyIn, TypeOK, usedVars, Use, Uses
  <2>. QED BY <2>1, <2>2, <2>3, <2>4, <2>5
           DEF GpuInv, CopyIn, TypeOK, loaderVars, syncVars, tableVars, keyVars, callVars
<1>2. LoaderInv'
  BY SMTT(20) DEF GpuInv, CopyIn, Cuda, Release, Return, Goto, Exits, LoaderInv,
                  TypeOK, Loaded, Making, Kinds, Verifies, Generate, loaderVars,
                  syncVars, tableVars, keyVars, callVars, bufferVars, endVars, usedVars
<1>3. BuffersInv'
  <2>1. pc = "copyIn"
    BY DEF CopyIn
  <2>. QED BY <1>0, <2>1, SMT DEF GpuInv, BuffersInv, LoaderInv, Making, Generate,
           callVars, CopyIn
<1>4. TablesInv'
  BY SMTT(20) DEF GpuInv, CopyIn, Cuda, Release, Return, Goto, Exits, TablesInv,
                  LoaderInv, TypeOK, TablesThere, Tables, Making, Generate, loaderVars,
                  syncVars, tableVars, keyVars, callVars, bufferVars, endVars,
                  usedVars, Verifies
<1>5. KeysInv'
  BY SMTT(20) DEF GpuInv, CopyIn, Cuda, Release, Return, Goto, Exits, KeysInv,
                  LoaderInv, TypeOK, Use, Uses, Making, Generate, Verifies, Kinds,
                  loaderVars, syncVars, tableVars, keyVars, callVars, bufferVars,
                  endVars, usedVars
<1>6. OwnKeyUsed' /\ TablesUsed' /\ LeftoverReportedOnce'
  BY SMTT(20) DEF GpuInv, CopyIn, Cuda, Release, Return, Goto, Exits, OwnKeyUsed,
                  TablesUsed, LeftoverReportedOnce, Succeeded, KeysInv, TablesInv,
                  LoaderInv, TypeOK, Making, Generate, Verifies, Kinds, loaderVars,
                  syncVars, tableVars, keyVars, callVars, bufferVars, endVars, usedVars
<1>. QED BY <1>1, <1>2, <1>3, <1>4, <1>5, <1>6 DEF GpuInv

(* The kernel is launched and the last error is taken: none means that     *)
(* tables and key were copied.                                             *)
LEMMA LaunchInv ==
  ASSUME GpuInv, Launch
  PROVE  GpuInv'
<1>0. \/ UNCHANGED <<buffers, registered>> /\ pc' \in {"register", "copyOut"}
         /\ (pc' = "register" => Making)
      \/ buffers' = {} /\ registered' = {} /\ pc' = "idle"
  <2>1. \A exit : buffers \ Freed(exit) = {} /\ registered \ Unregistered(exit) = {}
    BY AllFreed DEF Launch
  <2>. QED BY <2>1 DEF Launch, Release, Return, Goto, bufferVars
<1>1. TypeOK'
  <2>1. buffers' \subseteq Bufs /\ registered' \subseteq Bufs
    BY <1>0 DEF GpuInv, TypeOK
  <2>2. pc' \in Places
    BY <1>0 DEF Places
  <2>3. /\ lastError' \in BOOLEAN /\ ownFailure' \in BOOLEAN /\ usedTables' \in BOOLEAN
        /\ exited' \in BOOLEAN
    BY Zenon DEF GpuInv, Launch, Cuda, Release, Return, Goto, LeftAfterCheck, TypeOK,
                 endVars, usedVars
  <2>4. status' \in {"none", "ok", "failed"}
    BY DEF GpuInv, Launch, Release, Return, Goto, TypeOK, endVars
  <2>5. usedKey' \in Content \cup {NoKey}
    BY DEF GpuInv, Launch, TypeOK, usedVars, Use, Uses
  <2>. QED BY <2>1, <2>2, <2>3, <2>4, <2>5
           DEF GpuInv, Launch, TypeOK, loaderVars, syncVars, tableVars, keyVars, callVars
<1>2. LoaderInv'
  BY SMTT(20) DEF GpuInv, Launch, LeftAfterCheck, Release, Return, Goto, Exits,
                  LoaderInv, TypeOK, Loaded, Making, Kinds, Verifies, Generate,
                  loaderVars, syncVars, tableVars, keyVars, callVars, bufferVars,
                  endVars, Use, Tables
<1>3. BuffersInv'
  <2>1. pc = "launch"
    BY DEF Launch
  <2>. QED BY <1>0, <2>1, SMT DEF GpuInv, BuffersInv, LoaderInv, Making, Generate,
           callVars, Launch
<1>4. TablesInv'
  BY SMTT(20) DEF GpuInv, Launch, LeftAfterCheck, Release, Return, Goto, Exits,
                  TablesInv, LoaderInv, TypeOK, TablesThere, Tables, Making, Generate,
                  loaderVars, syncVars, tableVars, keyVars, callVars, bufferVars,
                  endVars, Use, Verifies
<1>5. KeysInv'
  BY SMTT(20) DEF GpuInv, Launch, LeftAfterCheck, Release, Return, Goto, Exits,
                  KeysInv, LoaderInv, TypeOK, Use, Uses, Making, Generate, Verifies,
                  Kinds, loaderVars, syncVars, tableVars, keyVars, callVars,
                  bufferVars, endVars, Tables
<1>6. OwnKeyUsed' /\ TablesUsed' /\ LeftoverReportedOnce'
  BY SMTT(20) DEF GpuInv, Launch, LeftAfterCheck, Release, Return, Goto, Exits,
                  OwnKeyUsed, TablesUsed, LeftoverReportedOnce, Succeeded, KeysInv,
                  TablesInv, LoaderInv, TypeOK, Making, Generate, Verifies, Kinds,
                  loaderVars, syncVars, tableVars, keyVars, callVars, bufferVars,
                  endVars, Use, Tables
<1>. QED BY <1>1, <1>2, <1>3, <1>4, <1>5, <1>6 DEF GpuInv

(* The results are copied.                                                 *)
LEMMA CopyOutInv ==
  ASSUME GpuInv, CopyOut
  PROVE  GpuInv'
<1>0. /\ buffers' = {} /\ registered' = {} /\ pc' = "idle"
      /\ status' \in {"ok", "failed"} /\ exited' = (status' = "failed" /\ Exits)
      /\ status' = "failed" => ownFailure'
  <2>. PICK step \in {"wait", "copy", "end"}, failed, late \in BOOLEAN :
              /\ Cuda(failed \/ late)
              /\ Release(ExitOf(step), IF failed THEN "failed" ELSE "ok")
    BY DEF CopyOut
  <2>1. ExitOf(step) \notin {"launch", "record"}
    BY DEF ExitOf
  <2>2. /\ buffers \ Freed(ExitOf(step)) = {}
        /\ registered \ Unregistered(ExitOf(step)) = {}
    BY <2>1, AllFreed
  <2>. QED BY <2>2 DEF Release, Return, Cuda
<1>1. TypeOK'
  BY <1>0, SMTT(20) DEF GpuInv, CopyOut, Cuda, Exits, TypeOK,
                  LoaderInv, KeysInv, Places, Content, Bufs, Kinds, Verifies,
                  Generate, Uses, Tables, loaderVars, syncVars, tableVars,
                  keyVars, callVars, usedVars
<1>2. LoaderInv'
  BY <1>0, SMTT(20) DEF GpuInv, CopyOut, Cuda, Exits, LoaderInv, TypeOK,
                  Loaded, Making, Kinds, Verifies, Generate, loaderVars, syncVars,
                  tableVars, keyVars, callVars, usedVars
<1>3. BuffersInv'
  BY <1>0, SMTT(20) DEF GpuInv, CopyOut, Cuda, Exits,
                  BuffersInv, LoaderInv, TypeOK, Bufs, Making, Loaded, Generate,
                  loaderVars, syncVars, tableVars, keyVars, callVars, usedVars,
                  Verifies
<1>4. TablesInv'
  BY <1>0, SMTT(20) DEF GpuInv, CopyOut, Cuda, Exits, TablesInv, LoaderInv,
                  TypeOK, TablesThere, Tables, Making, Generate, loaderVars, syncVars,
                  tableVars, keyVars, callVars, usedVars, Verifies
<1>5. KeysInv'
  BY <1>0, SMTT(20) DEF GpuInv, CopyOut, Cuda, Exits, KeysInv, LoaderInv,
                  TypeOK, Use, Uses, Making, Generate, Verifies, Kinds, loaderVars,
                  syncVars, tableVars, keyVars, callVars, usedVars
<1>6. OwnKeyUsed' /\ TablesUsed' /\ LeftoverReportedOnce'
  BY <1>0, SMTT(20) DEF GpuInv, CopyOut, Cuda, Exits, OwnKeyUsed,
                  TablesUsed, LeftoverReportedOnce, Succeeded, KeysInv, TablesInv,
                  LoaderInv, TypeOK, Making, Generate, Verifies, Kinds, loaderVars,
                  syncVars, tableVars, keyVars, callVars, usedVars
<1>. QED BY <1>1, <1>2, <1>3, <1>4, <1>5, <1>6 DEF GpuInv

(* The device is reset.                                                    *)
LEMMA ResetInv ==
  ASSUME GpuInv, Reset
  PROVE  GpuInv'
<1>1. TypeOK'
  <2>1. /\ stream' = FALSE /\ event' = FALSE /\ tablesLost' = FALSE
    BY DEF Reset
  <2>2. stream' \in BOOLEAN
    BY <2>1, Zenon
  <2>3. event' \in BOOLEAN
    BY <2>1, Zenon
  <2>4. tablesLost' \in BOOLEAN /\ exited' \in BOOLEAN
    BY <2>1, Zenon DEF Reset, Return
  <2>5. lastError' \in BOOLEAN /\ ownFailure' \in BOOLEAN
    BY DEF Reset
  <2>6. /\ table' \in [Tables -> {"null", "raw", "good"}]
        /\ deviceKey' \in [Uses -> Content]
        /\ hash' \in [Uses -> Keys \cup {NoKey}] /\ cachedLogn' \in [Uses -> {0, Logn}]
    BY DEF Reset, Content
  <2>7. pc' \in Places /\ status' \in {"none", "ok", "failed"}
    BY DEF Reset, Return, Places
  <2>. QED BY <2>2, <2>3, <2>4, <2>5, <2>6, <2>7
           DEF GpuInv, TypeOK, Reset, loaderVars, callVars, bufferVars, usedVars
<1>2. LoaderInv'
  BY SMTT(20) DEF GpuInv, Reset, Return, Exits, LoaderInv, TypeOK, Loaded, Making,
                  Kinds, Verifies, Generate, loaderVars, callVars, bufferVars,
                  usedVars, Tables, Uses
<1>3. BuffersInv'
  BY SMTT(20) DEF GpuInv, Reset, Return, Exits, BuffersInv, LoaderInv, TypeOK, Bufs,
                  Making, Loaded, Generate, loaderVars, callVars, bufferVars, usedVars,
                  Tables, Verifies, Uses
<1>4. TablesInv'
  BY SMTT(20) DEF GpuInv, Reset, Return, Exits, TablesInv, LoaderInv, TypeOK,
                  TablesThere, Tables, Making, Generate, loaderVars, callVars,
                  bufferVars, usedVars, Verifies, Uses
<1>5. KeysInv'
  BY SMTT(20) DEF GpuInv, Reset, Return, Exits, KeysInv, LoaderInv, TypeOK, Use, Uses,
                  Making, Generate, Verifies, Kinds, loaderVars, callVars, bufferVars,
                  usedVars, Tables
<1>6. OwnKeyUsed' /\ TablesUsed' /\ LeftoverReportedOnce'
  BY SMTT(20) DEF GpuInv, Reset, Return, Exits, OwnKeyUsed, TablesUsed,
                  LeftoverReportedOnce, Succeeded, KeysInv, TablesInv, LoaderInv,
                  TypeOK, Making, Generate, Verifies, Kinds, loaderVars, callVars,
                  bufferVars, usedVars, Tables, Uses
<1>. QED BY <1>1, <1>2, <1>3, <1>4, <1>5, <1>6 DEF GpuInv

LEMMA StutterInv == ASSUME GpuInv, UNCHANGED vars PROVE GpuInv'
BY DEF GpuInv, TypeOK, LoaderInv, BuffersInv, TablesInv, KeysInv, OwnKeyUsed, TablesUsed,
       LeftoverReportedOnce, Succeeded, Loaded, Making, Use, TablesThere, vars, loaderVars,
       syncVars, tableVars, keyVars, callVars, bufferVars, errorVars, endVars, usedVars

(* Where an unchecked failure of CUDA is remembered, at every point of     *)
(* every sequence of calls.                                                *)
THEOREM GpuInvHolds == Spec => []GpuInv
<1>1. GpuInv /\ [Next]_vars => GpuInv'
  <2>. SUFFICES ASSUME GpuInv, [Next]_vars PROVE GpuInv'
    OBVIOUS
  <2>1. ASSUME NEW c \in Kinds, NEW k \in Keys, Call(c, k) PROVE GpuInv'
    BY <2>1, CallInv
  <2>2. CASE Ended \/ UNCHANGED vars
    BY <2>2, StutterInv DEF Ended
  <2>3. CASE Load
    BY <2>3, LoadInv
  <2>4. CASE LoadedBefore
    BY <2>4, LoadedBeforeInv
  <2>5. CASE Setup
    BY <2>5, SetupInv
  <2>6. CASE NoHostTables
    BY <2>6, NoHostTablesInv
  <2>7. CASE KeepTables
    BY <2>7, KeepTablesInv
  <2>8. CASE CopyTables
    BY <2>8, CopyTablesInv
  <2>9. CASE KeepKey
    BY <2>9, KeepKeyInv
  <2>10. CASE CopyKey
    BY <2>10, CopyKeyInv
  <2>11. CASE NoHostKey
    BY <2>11, NoHostKeyInv
  <2>12. CASE Allocate
    BY <2>12, AllocateInv
  <2>13. CASE Register
    BY <2>13, RegisterInv
  <2>14. CASE CopyIn
    BY <2>14, CopyInInv
  <2>15. CASE Launch
    BY <2>15, LaunchInv
  <2>16. CASE CopyOut
    BY <2>16, CopyOutInv
  <2>17. CASE Reset
    BY <2>17, ResetInv
  <2>. QED BY <2>1, <2>2, <2>3, <2>4, <2>5, <2>6, <2>7, <2>8, <2>9, <2>10, <2>11,
             <2>12, <2>13, <2>14, <2>15, <2>16, <2>17 DEF Next
<1>. QED BY InitInv, <1>1, PTL DEF Spec

(* The variables have their types.                                         *)
THEOREM TypeCorrect == Spec => []TypeOK
<1>1. GpuInv => TypeOK
  BY DEF GpuInv
<1>. QED BY <1>1, GpuInvHolds, PTL

(* A successful call worked with its own key.                              *)
THEOREM OwnKey == Spec => []OwnKeyUsed
<1>1. GpuInv => OwnKeyUsed
  BY DEF GpuInv
<1>. QED BY <1>1, GpuInvHolds, PTL

(* A successful call worked with the tables unless a copy of them was lost. *)
THEOREM TablesWereThere == Spec => []TablesUsed
<1>1. GpuInv => TablesUsed
  BY DEF GpuInv
<1>. QED BY <1>1, GpuInvHolds, PTL

(* No call keeps a buffer or a registration, on any of its ways out.       *)
THEOREM NothingHeld == Spec => []AllReleased
<1>1. GpuInv => AllReleased
  BY DEF GpuInv, AllReleased, BuffersInv
<1>. QED BY <1>1, GpuInvHolds, PTL

(* No function is called that was not found in the library.                *)
THEOREM Resolved == Spec => []CallsResolved
<1>1. GpuInv => CallsResolved
  BY DEF GpuInv, CallsResolved, LoaderInv, TypeOK
<1>. QED BY <1>1, GpuInvHolds, PTL

(* An error left over makes at most one later call fail.                   *)
THEOREM ReportedOnce == Spec => []LeftoverReportedOnce
<1>1. GpuInv => LeftoverReportedOnce
  BY DEF GpuInv
<1>. QED BY <1>1, GpuInvHolds, PTL

=============================================================================
