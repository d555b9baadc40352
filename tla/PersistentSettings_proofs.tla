---------------------- MODULE PersistentSettings_proofs ----------------------
(***************************************************************************)
(* Proofs about PersistentSettings for any services, values, defaults and  *)
(* numbers of open requests and failing writes.                            *)
(***************************************************************************)
EXTENDS PersistentSettings, TLAPS

(* MemorySaved for each service by itself, as begin() runs service by      *)
(* service.                                                                *)
Saved(s) ==
  s \notin loading /\ ~reset /\ open[s] = 0 /\ failures = 0 /\ ~spoilt[s] => file[s] = mem[s]

(* A settled value is in the file, where a restart finds it, and nobody is *)
(* about to overwrite it: no request outlives a restart.                   *)
Settled(s) ==
  /\ s \in loading => open[s] = 0
  /\ settled[s] # NoValue =>
       /\ file[s] = settled[s] /\ open[s] = 0
       /\ s \notin loading => mem[s] = settled[s]

(* What the factory reset removed is not in the file either.               *)
Forgotten(s) ==
  wiped[s] => /\ file[s] \in Defaults \cup {Absent, Corrupt}
              /\ s \notin loading /\ ~reset => mem[s] \in Defaults

IInv == TypeOK /\ \A s \in Services : Saved(s) /\ Settled(s) /\ Forgotten(s)

LEMMA InitIInv == Init => IInv
<1> SUFFICES ASSUME Init PROVE IInv
  OBVIOUS
<1>1. mem \in [Services -> Values] /\ failures \in 0 .. MaxFailures
  BY SettingsAssumption DEF Init
<1>2. open \in [Services -> 0 .. MaxOpen]
  BY SettingsAssumption DEF Init
<1>3. /\ file \in [Services -> Values \cup {Absent, Corrupt}]
      /\ settled \in [Services -> Values \cup {NoValue}]
  BY DEF Init
<1>4. wiped \in [Services -> BOOLEAN] /\ spoilt \in [Services -> BOOLEAN]
  BY DEF Init
<1>5. TypeOK
  BY <1>1, <1>2, <1>3, <1>4 DEF TypeOK, Init
<1>6. ASSUME NEW s \in Services PROVE Saved(s) /\ Settled(s) /\ Forgotten(s)
  BY DEF Init, Saved, Settled, Forgotten
<1> QED BY <1>5, <1>6 DEF IInv

(* What a write leaves behind, whether it works or not.                    *)
LEMMA Written ==
  ASSUME NEW s \in Services, NEW v \in Values, TypeOK, WriteToFS(s, v)
  PROVE  /\ file' \in [Services -> Values \cup {Absent, Corrupt}]
         /\ failures' \in 0 .. MaxFailures
         /\ \A r \in Services \ {s} : file'[r] = file[r]
         /\ file'[s] \in {v, file[s], Corrupt}
         /\ failures' = 0 => failures = 0 /\ file'[s] = v
BY SettingsAssumption DEF TypeOK, WriteToFS

LEMMA ReadStep ==
  ASSUME IInv, NEW s \in Services, ReadFromFS(s)
  PROVE  IInv'
<1>1. TypeOK'
  BY DEF IInv, TypeOK, ReadFromFS
<1>2. ASSUME NEW r \in Services PROVE (Saved(r) /\ Settled(r) /\ Forgotten(r))'
  BY ContentAssumption, SettingsAssumption
     DEF IInv, TypeOK, ReadFromFS, Saved, Settled, Forgotten
<1> QED BY <1>1, <1>2 DEF IInv

LEMMA DefaultsStep ==
  ASSUME IInv, NEW s \in Services, ApplyDefaults(s)
  PROVE  IInv'
<1>1. PICK d \in Defaults : mem' = [mem EXCEPT ![s] = d] /\ WriteToFS(s, d) /\ Settle(s, d)
  BY DEF ApplyDefaults
<1>2. d \in Values
  BY SettingsAssumption
<1>3. /\ file' \in [Services -> Values \cup {Absent, Corrupt}]
      /\ failures' \in 0 .. MaxFailures
      /\ \A r \in Services \ {s} : file'[r] = file[r]
      /\ file'[s] \in {d, file[s], Corrupt}
      /\ failures' = 0 => failures = 0 /\ file'[s] = d
  BY <1>1, <1>2, Written DEF IInv
<1>4. TypeOK'
  BY <1>1, <1>2, <1>3 DEF IInv, TypeOK, ApplyDefaults, Settle
<1>5. ASSUME NEW r \in Services PROVE (Saved(r) /\ Settled(r) /\ Forgotten(r))'
  <2>1. CASE r = s
    <3>1. Saved(s)'
      BY <1>1, <1>3 DEF IInv, TypeOK, ApplyDefaults, Saved
    <3>2. Settled(s)'
      BY <1>1, <1>3 DEF IInv, TypeOK, ApplyDefaults, Settle, Settled
    <3>3. Forgotten(s)'
      BY <1>1, <1>3 DEF IInv, TypeOK, ApplyDefaults, Forgotten
    <3> QED BY <2>1, <3>1, <3>2, <3>3
  <2>2. CASE r # s
    <3>1. /\ mem'[r] = mem[r] /\ file'[r] = file[r] /\ settled'[r] = settled[r]
          /\ r \in loading' <=> r \in loading
      BY <1>1, <1>3, <2>2 DEF IInv, TypeOK, ApplyDefaults, Settle
    <3>2. /\ open' = open /\ spoilt' = spoilt /\ wiped' = wiped /\ reset' = reset
          /\ failures' = 0 => failures = 0
      BY <1>3 DEF ApplyDefaults
    <3> QED BY <3>1, <3>2 DEF IInv, Saved, Settled, Forgotten
  <2> QED BY <2>1, <2>2
<1> QED BY <1>4, <1>5 DEF IInv
LEMMA PostStep ==
  ASSUME IInv, NEW s \in Services, NEW v \in Values, Post(s, v)
  PROVE  IInv'
<1>1. TypeOK'
  <2>1. mem' \in [Services -> Values] /\ open' \in [Services -> 0 .. MaxOpen]
    BY SettingsAssumption DEF IInv, TypeOK, Post
  <2>2. settled' \in [Services -> Values \cup {NoValue}] /\ wiped' \in [Services -> BOOLEAN]
    BY DEF IInv, TypeOK, Post
  <2> QED BY <2>1, <2>2 DEF IInv, TypeOK, Post
<1>2. ASSUME NEW r \in Services PROVE (Saved(r) /\ Settled(r) /\ Forgotten(r))'
  <2>1. CASE r = s
    BY <2>1, SettingsAssumption DEF IInv, TypeOK, Post, Up, Saved, Settled, Forgotten
  <2>2. CASE r # s
    BY <2>2 DEF IInv, TypeOK, Post, Saved, Settled, Forgotten
  <2> QED BY <2>1, <2>2
<1> QED BY <1>1, <1>2 DEF IInv

LEMMA RefusedStep ==
  ASSUME IInv, NEW s \in Services, PostRefused(s)
  PROVE  IInv'
<1>1. CASE s \notin Resetting
  BY <1>1 DEF IInv, TypeOK, PostRefused, Saved, Settled, Forgotten
<1>2. CASE s \in Resetting
  <2>1. PICK d \in Defaults : mem' = [mem EXCEPT ![s] = d]
    BY <1>2 DEF PostRefused
  <2>2. d \in Values
    BY SettingsAssumption
  <2>3. /\ settled' = [settled EXCEPT ![s] = NoValue] /\ spoilt' = [spoilt EXCEPT ![s] = TRUE]
        /\ UNCHANGED <<file, loading, open, removing, reset, failures, wiped>>
    BY <1>2 DEF PostRefused
  <2>4. TypeOK'
    BY <2>1, <2>2, <2>3 DEF IInv, TypeOK
  <2>5. ASSUME NEW r \in Services PROVE (Saved(r) /\ Settled(r) /\ Forgotten(r))'
    <3>1. CASE r = s
      BY <2>1, <2>3, <3>1 DEF IInv, TypeOK, Saved, Settled, Forgotten
    <3>2. CASE r # s
      BY <2>1, <2>3, <3>2 DEF IInv, TypeOK, Saved, Settled, Forgotten
    <3> QED BY <3>1, <3>2
  <2> QED BY <2>4, <2>5 DEF IInv
<1> QED BY <1>1, <1>2

LEMMA DisconnectStep ==
  ASSUME IInv, NEW s \in Services, Disconnect(s)
  PROVE  IInv'
<1>1. mem[s] \in Values /\ WriteToFS(s, mem[s])
  BY DEF IInv, TypeOK, Disconnect
<1>2. /\ file' \in [Services -> Values \cup {Absent, Corrupt}]
      /\ failures' \in 0 .. MaxFailures
      /\ \A r \in Services \ {s} : file'[r] = file[r]
      /\ file'[s] \in {mem[s], file[s], Corrupt}
      /\ failures' = 0 => failures = 0 /\ file'[s] = mem[s]
  BY <1>1, Written DEF IInv
<1>3. /\ open' = [open EXCEPT ![s] = open[s] - 1] /\ open[s] > 0
      /\ spoilt' = [spoilt EXCEPT ![s] = FALSE]
      /\ UNCHANGED <<mem, loading, removing, reset, wiped>>
      /\ loading = {} /\ ~reset
  BY DEF Disconnect, Up
<1>4. open' \in [Services -> 0 .. MaxOpen] /\ open'[s] = open[s] - 1
  BY <1>3, SettingsAssumption DEF IInv, TypeOK
<1>5. settled[s] = NoValue
  BY <1>3 DEF IInv, Settled
<1>6. /\ settled' \in [Services -> Values \cup {NoValue}]
      /\ \A r \in Services \ {s} : settled'[r] = settled[r]
      /\ settled'[s] # NoValue => open'[s] = 0 /\ file'[s] = mem[s] /\ settled'[s] = mem[s]
  <2>1. CASE open'[s] = 0
    BY <1>1, <2>1 DEF IInv, TypeOK, Disconnect, Settle
  <2>2. CASE open'[s] # 0
    BY <1>5, <2>2 DEF IInv, TypeOK, Disconnect
  <2> QED BY <2>1, <2>2
<1>7. TypeOK'
  <2>1. spoilt' \in [Services -> BOOLEAN]
    BY <1>3 DEF IInv, TypeOK
  <2> QED BY <1>2, <1>3, <1>4, <1>6, <2>1 DEF IInv, TypeOK
<1>8. ASSUME NEW r \in Services PROVE (Saved(r) /\ Settled(r) /\ Forgotten(r))'
  <2>1. CASE r = s
    <3>1. Saved(s)'
      BY <1>2, <1>3 DEF Saved
    <3>2. Settled(s)'
      BY <1>3, <1>6 DEF Settled
    <3>3. Forgotten(s)'
      BY <1>2, <1>3 DEF IInv, Forgotten
    <3> QED BY <2>1, <3>1, <3>2, <3>3
  <2>2. CASE r # s
    <3>1. /\ file'[r] = file[r] /\ settled'[r] = settled[r] /\ spoilt'[r] = spoilt[r]
          /\ failures' = 0 => failures = 0
      BY <1>2, <1>3, <1>6, <2>2 DEF IInv, TypeOK
    <3>2. open'[r] = open[r]
      BY <1>3, <2>2 DEF IInv, TypeOK
    <3> QED BY <1>3, <3>1, <3>2 DEF IInv, Saved, Settled, Forgotten
  <2> QED BY <2>1, <2>2
<1> QED BY <1>7, <1>8 DEF IInv

LEMMA RestartStep ==
  ASSUME IInv, Restart
  PROVE  IInv'
<1>1. mem' \in [Services -> Values] /\ open' \in [Services -> 0 .. MaxOpen]
  BY SettingsAssumption DEF Restart
<1>2. spoilt' \in [Services -> BOOLEAN] /\ reset' = FALSE
  BY DEF Restart
<1>3. TypeOK'
  BY <1>1, <1>2 DEF IInv, TypeOK, Restart
<1>4. ASSUME NEW r \in Services PROVE (Saved(r) /\ Settled(r) /\ Forgotten(r))'
  BY DEF IInv, Restart, Saved, Settled, Forgotten
<1> QED BY <1>3, <1>4 DEF IInv

LEMMA FactoryResetStep ==
  ASSUME IInv, FactoryReset
  PROVE  IInv'
<1>1. TypeOK'
  BY DEF IInv, TypeOK, FactoryReset
<1>2. ASSUME NEW r \in Services PROVE (Saved(r) /\ Settled(r) /\ Forgotten(r))'
  BY DEF IInv, FactoryReset, Up, Saved, Settled, Forgotten
<1> QED BY <1>1, <1>2 DEF IInv

LEMMA RemoveStep ==
  ASSUME IInv, NEW s \in Services, Remove(s)
  PROVE  IInv'
<1>1. TypeOK'
  <2>1. /\ file' \in [Services -> Values \cup {Absent, Corrupt}]
        /\ settled' \in [Services -> Values \cup {NoValue}]
    BY DEF IInv, TypeOK, Remove
  <2>2. wiped' \in [Services -> BOOLEAN]
    BY DEF IInv, TypeOK, Remove
  <2> QED BY <2>1, <2>2 DEF IInv, TypeOK, Remove
<1>2. ASSUME NEW r \in Services PROVE (Saved(r) /\ Settled(r) /\ Forgotten(r))'
  <2>1. CASE r = s
    BY <2>1 DEF IInv, TypeOK, Remove, Saved, Settled, Forgotten
  <2>2. CASE r # s
    <3>1. file'[r] = file[r] /\ settled'[r] = settled[r] /\ wiped'[r] = wiped[r]
      BY <2>2 DEF IInv, TypeOK, Remove
    <3> QED BY <3>1 DEF IInv, Remove, Saved, Settled, Forgotten
  <2> QED BY <2>1, <2>2
<1> QED BY <1>1, <1>2 DEF IInv

LEMMA Inductive == IInv /\ [Next]_vars => IInv'
<1> SUFFICES ASSUME IInv, [Next]_vars PROVE IInv'
  OBVIOUS
<1>1. CASE UNCHANGED vars
  BY <1>1 DEF IInv, TypeOK, vars, Saved, Settled, Forgotten
<1>2. ASSUME NEW s \in Services,
             \/ ReadFromFS(s) \/ ApplyDefaults(s)
             \/ \E v \in Values : Post(s, v)
             \/ PostRefused(s) \/ Disconnect(s) \/ Remove(s)
      PROVE  IInv'
  BY <1>2, ReadStep, DefaultsStep, PostStep, RefusedStep, DisconnectStep, RemoveStep
<1>3. CASE FactoryReset \/ RestartAfterReset \/ Restart
  BY <1>3, FactoryResetStep, RestartStep DEF RestartAfterReset
<1> QED BY <1>1, <1>2, <1>3 DEF Next

LEMMA Invariance == Spec => []IInv
BY InitIInv, Inductive, PTL DEF Spec

(* Types are kept, whatever is posted, fails or restarts (StatefulService, *)
(* FSPersistence, FactoryResetService).                                    *)
THEOREM TypeCorrect == Spec => []TypeOK
<1>1. IInv => TypeOK
  BY DEF IInv
<1> QED BY <1>1, Invariance, PTL

(* Whatever the number of services and of requests at a time, what a       *)
(* running service holds is in its file when its requests are over.        *)
THEOREM MemorySavedHolds == Spec => []MemorySaved
<1>1. IInv => MemorySaved
  BY DEF IInv, MemorySaved, Saved, Up
<1> QED BY <1>1, Invariance, PTL

(* Settled values survive restarts and power cuts (FSPersistence.h).       *)
THEOREM DurableHolds == Spec => []Durable
<1>1. IInv => Durable
  BY DEF IInv, Durable, Settled
<1> QED BY <1>1, Invariance, PTL

(* A factory reset forgets, also when the power fails in the middle of it  *)
(* (FactoryResetService.cpp).                                              *)
THEOREM ResetForgetsHolds == Spec => []ResetForgets
<1>1. IInv => ResetForgets
  BY DEF IInv, ResetForgets, Forgotten, Up
<1> QED BY <1>1, Invariance, PTL
=============================================================================
