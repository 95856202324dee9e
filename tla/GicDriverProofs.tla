--------------------------- MODULE GicDriverProofs ---------------------------
(***************************************************************************)
(* Proofs about GicDriver: once S has started, its interrupts stay set up  *)
(* as it asked, and those NS has given a priority stay below them, for     *)
(* every set of interrupts, every initial contents of the registers, every *)
(* call of NS and every later call of S.                                   *)
(***************************************************************************)
EXTENDS GicDriver, TLAPS

-----------------------------------------------------------------------------
(***************************************************************************)
(* The inductive invariant: what each call of the start-up has achieved    *)
(* survives the calls after it, and NS has not run before the last.        *)
(***************************************************************************)
Progress ==
    /\ pc > 1 => reg.dist
    /\ pc > 2 => reg.intf
    /\ pc \in 3..15 => reg.pmr = 15
    /\ pc > 15 => reg.pmr = 0 \/ reg.pmr > 7
    /\ pc > 6 => SPI_1 \notin reg.isr
    /\ pc > 9 => TTC0_2 \notin reg.isr
    /\ pc > 10 => TTC0_2 \in reg.ise
    /\ pc > 11 => TTC0_2 \in reg.iptr
    /\ pc > 12 => reg.ipr[TTC0_2] = 5
    /\ pc > 13 => SPI_1 \in reg.ise
    /\ pc > 14 => SPI_1 \in reg.iptr
    /\ pc > 15 => reg.ipr[SPI_1] = 4

\* NS runs, and has set priorities, only after the start-up.
NsComesLater ==
    /\ pc \in 0..15 => world = "S" /\ settled = {}
    /\ \A i \in settled : reg.ipr[i] > 7

IInv == TypeOK /\ Progress /\ NsComesLater

\* The start-up, call by call.
LEMMA StartUpCalls ==
    /\ Len(StartUp) = 15
    /\ StartUp[1] = Call("distributor_init", 0, 0)
    /\ StartUp[2] = Call("interface_init", 0, 0)
    /\ StartUp[3] = Call("security_configall", 0, 0)
    /\ StartUp[4] = Call("security_config", UART_1, 1)
    /\ StartUp[5] = Call("security_config", TTC1_2, 1)
    /\ StartUp[6] = Call("security_config", SPI_1, 0)
    /\ StartUp[7] = Call("security_config", SCUTIMER, 1)
    /\ StartUp[8] = Call("security_config", GEM0, 1)
    /\ StartUp[9] = Call("security_config", TTC0_2, 0)
    /\ StartUp[10] = Call("enable", TTC0_2, 1)
    /\ StartUp[11] = Call("target_set", TTC0_2, 1)
    /\ StartUp[12] = Call("priority_set", TTC0_2, 5)
    /\ StartUp[13] = Call("enable", SPI_1, 1)
    /\ StartUp[14] = Call("target_set", SPI_1, 1)
    /\ StartUp[15] = Call("priority_set", SPI_1, 4)
  BY DEF StartUp, LtzvisorHwInit, HwInit

\* The interrupts of S are among those considered, and distinct.
LEMMA SecureInts ==
    /\ TTC0_2 \in Global /\ SPI_1 \in Global
    /\ TTC0_2 \in Ints /\ SPI_1 \in Ints /\ SPI_1 # TTC0_2
  BY IntsAssumption DEF Global, TTC0_2, SPI_1

\* The calls without an interrupt among their arguments.
Plain == {"distributor_init", "interface_init", "security_configall",
          "critical_entry", "critical_exit"}

\* A call leaves registers behind.
LEMMA EffectType ==
    ASSUME reg \in Registers, NEW c, c.f \in Functions,
           c.f \in Plain \/ (c.i \in Ints /\ c.v \in Nat)
    PROVE  Effect(c) \in Registers
  <1>1. CASE c.f = "distributor_init"
    <2>1. reg.ipr \in [Ints -> Nibbles]
      BY DEF Registers
    <2>2. [i \in Ints |-> IF i \in Global THEN 0 ELSE reg.ipr[i]]
            \in [Ints -> Nibbles]
      BY <2>1 DEF Nibbles
    <2>3. DistributorInit \in Registers
      BY <2>2 DEF DistributorInit, Registers
    <2> QED BY <1>1, <2>3 DEF Effect
  <1>2. CASE c.f = "interface_init"
    <2>1. reg.ipr \in [Ints -> Nibbles]
      BY DEF Registers
    <2>2. [i \in Ints |-> IF i \in Global THEN reg.ipr[i] ELSE 0]
            \in [Ints -> Nibbles]
      BY <2>1 DEF Nibbles
    <2>3. 15 \in Nibbles /\ reg.level \cap Global \in SUBSET Ints
      BY DEF Nibbles, Registers
    <2>4. InterfaceInit \in Registers
      BY <2>2, <2>3 DEF InterfaceInit, Registers
    <2> QED BY <1>2, <2>4 DEF Effect
  <1>3. CASE c.f = "security_configall"
    <2>1. SecurityConfigAll \in Registers
      BY DEF SecurityConfigAll, Registers, Global
    <2> QED BY <1>3, <2>1 DEF Effect
  <1>4. CASE c.f = "security_config"
    <2>1. SecurityConfig(c.i, c.v) \in Registers
      BY <1>4 DEF SecurityConfig, Registers, Plain
    <2> QED BY <1>4, <2>1 DEF Effect
  <1>5. CASE c.f = "enable"
    <2>1. InterruptEnable(c.i, c.v) \in Registers
      BY <1>5 DEF InterruptEnable, Registers, Plain
    <2> QED BY <1>5, <2>1 DEF Effect
  <1>6. CASE c.f = "target_set"
    <2>1. TargetSet(c.i, c.v) \in Registers
      BY <1>6 DEF TargetSet, Registers, Plain
    <2> QED BY <1>6, <2>1 DEF Effect
  <1>7. CASE c.f = "priority_set"
    <2>1. c.v % 16 \in Nibbles
      BY <1>7 DEF Nibbles, Plain
    <2>2. PrioritySet(c.i, c.v) \in Registers
      BY <1>7, <2>1 DEF PrioritySet, Registers, Plain
    <2> QED BY <1>7, <2>2 DEF Effect
  <1>8. CASE c.f = "critical_entry"
    <2>1. CriticalEntry \in Registers
      BY DEF CriticalEntry, Registers, Nibbles
    <2> QED BY <1>8, <2>1 DEF Effect
  <1>9. CASE c.f = "critical_exit"
    <2>1. CriticalExit \in Registers
      BY DEF CriticalExit, Registers, Nibbles
    <2> QED BY <1>9, <2>1 DEF Effect
  <1> QED
    BY <1>1, <1>2, <1>3, <1>4, <1>5, <1>6, <1>7, <1>8, <1>9 DEF Functions
-----------------------------------------------------------------------------
\* What a call leaves alone: the group of an interrupt that is not in NS is
\* changed by security_configall and security_config only, and so on.
LEMMA EffectFields ==
    ASSUME reg \in Registers, NEW c, c.f \in Functions,
           c.f \in Plain \/ (c.i \in Ints /\ c.v \in Nat),
           NEW s \in Ints
    PROVE  /\ c.f # "security_configall" /\ c.f # "security_config" =>
                Effect(c).isr = reg.isr
           /\ c.f = "security_config" /\ c.i # s =>
                (s \in Effect(c).isr <=> s \in reg.isr)
           /\ c.f # "distributor_init" /\ (c.f = "enable" => c.i # s) =>
                (s \in Effect(c).ise <=> s \in reg.ise)
           /\ c.f # "distributor_init" /\ (c.f = "target_set" => c.i # s) =>
                (s \in Effect(c).iptr <=> s \in reg.iptr)
           /\ /\ c.f # "distributor_init" /\ c.f # "interface_init"
              /\ c.f = "priority_set" => c.i # s
              => Effect(c).ipr[s] = reg.ipr[s]
           /\ c.f \notin {"interface_init", "critical_entry", "critical_exit"} =>
                Effect(c).pmr = reg.pmr
           /\ reg.dist => Effect(c).dist
           /\ reg.intf => Effect(c).intf
  <1> USE DEF Registers
  <1>1. CASE c.f = "distributor_init"
    BY <1>1 DEF Effect, DistributorInit
  <1>2. CASE c.f = "interface_init"
    BY <1>2 DEF Effect, InterfaceInit
  <1>3. CASE c.f = "security_configall"
    BY <1>3 DEF Effect, SecurityConfigAll
  <1>4. CASE c.f = "security_config"
    BY <1>4 DEF Effect, SecurityConfig, Plain
  <1>5. CASE c.f = "enable"
    BY <1>5 DEF Effect, InterruptEnable, Plain
  <1>6. CASE c.f = "target_set"
    BY <1>6 DEF Effect, TargetSet, Plain
  <1>7. CASE c.f = "priority_set"
    BY <1>7 DEF Effect, PrioritySet, Plain
  <1>8. CASE c.f = "critical_entry"
    BY <1>8 DEF Effect, CriticalEntry
  <1>9. CASE c.f = "critical_exit"
    BY <1>9 DEF Effect, CriticalExit
  <1> QED
    BY <1>1, <1>2, <1>3, <1>4, <1>5, <1>6, <1>7, <1>8, <1>9 DEF Functions

\* The calls of the start-up and the later ones are calls.
LEMMA StartUpIsCalls ==
    ASSUME NEW k \in 1..15
    PROVE  /\ StartUp[k].f \in Functions \ {"critical_entry", "critical_exit"}
           /\ StartUp[k].f \in Plain \/ (StartUp[k].i \in Ints /\ StartUp[k].v \in Nat)
           /\ k > 1 => StartUp[k].f # "distributor_init"
           /\ k > 2 => StartUp[k].f # "interface_init"
           /\ k > 3 => StartUp[k].f # "security_configall"
           /\ k > 9 => StartUp[k].f # "security_config"
  <1> k \in {1, 2, 3, 4, 5, 6, 7, 8, 9, 10, 11, 12, 13, 14, 15}
    OBVIOUS
  <1> QED
    BY StartUpCalls, IntsAssumption, SMTT(60) DEF Call, Functions, Plain

-----------------------------------------------------------------------------
\* Each call of the start-up achieves its part and undoes none.
LEMMA StartUpProgress ==
    ASSUME TypeOK, Progress, NsComesLater, StartUpCall
    PROVE  TypeOK' /\ Progress' /\ NsComesLater'
  <1> DEFINE c == StartUp[pc]
  <1>1. /\ pc \in 1..15 /\ pc' = pc + 1 /\ reg' = Effect(c) /\ reg \in Registers
        /\ found' = found /\ world' = world /\ op' = op /\ settled' = settled
        /\ world = "S"
    BY StartUpCalls DEF StartUpCall, TypeOK
  <1>2. /\ c.f \in Functions \ {"critical_entry", "critical_exit"}
        /\ c.f \in Plain \/ (c.i \in Ints /\ c.v \in Nat)
        /\ pc > 1 => c.f # "distributor_init"
        /\ pc > 2 => c.f # "interface_init"
        /\ pc > 3 => c.f # "security_configall"
        /\ pc > 9 => c.f # "security_config"
    BY <1>1, StartUpIsCalls
  <1>3. reg' \in Registers
    BY <1>1, <1>2, EffectType
  <1>4. TypeOK'
    BY <1>1, <1>3, StartUpCalls DEF TypeOK
  <1>5. pc \in 0..15 /\ settled = {}
    BY <1>1 DEF NsComesLater
  <1>6. NsComesLater'
    BY <1>1, <1>5 DEF NsComesLater
  <1>7. pc > 1 => reg'.dist
    BY <1>1, <1>2, EffectFields, SecureInts DEF Progress
  <1>8. pc > 2 => reg'.intf /\ reg'.pmr = 15
    BY <1>1, <1>2, EffectFields, SecureInts DEF Progress
  <1>9. pc = 1 => reg'.dist
    <2>1. pc = 1 => reg' = DistributorInit
      BY <1>1, StartUpCalls DEF Call, Effect
    <2>2. DistributorInit.dist
      BY <1>1 DEF DistributorInit, Registers
    <2> QED
      BY <2>1, <2>2
  <1>10. pc = 2 => reg'.intf /\ reg'.pmr = 15
    <2>1. pc = 2 => reg' = InterfaceInit
      BY <1>1, StartUpCalls DEF Call, Effect
    <2>2. InterfaceInit.intf /\ InterfaceInit.pmr = 15
      BY <1>1 DEF InterfaceInit, Registers
    <2> QED
      BY <2>1, <2>2
  <1>11. pc = 6 => SPI_1 \notin reg'.isr
    BY <1>1, StartUpCalls DEF Call, Effect, SecurityConfig, Registers
  <1>12. pc = 9 => TTC0_2 \notin reg'.isr
    BY <1>1, StartUpCalls DEF Call, Effect, SecurityConfig, Registers
  <1>13. pc = 10 => TTC0_2 \in reg'.ise
    BY <1>1, StartUpCalls DEF Call, Effect, InterruptEnable, Registers
  <1>14. pc = 11 => TTC0_2 \in reg'.iptr
    BY <1>1, StartUpCalls, SecureInts DEF Call, Effect, TargetSet, Registers
  <1>15. pc = 12 => reg'.ipr[TTC0_2] = 5
    BY <1>1, StartUpCalls, SecureInts DEF Call, Effect, PrioritySet, Registers
  <1>16. pc = 13 => SPI_1 \in reg'.ise
    BY <1>1, StartUpCalls DEF Call, Effect, InterruptEnable, Registers
  <1>17. pc = 14 => SPI_1 \in reg'.iptr
    BY <1>1, StartUpCalls, SecureInts DEF Call, Effect, TargetSet, Registers
  <1>18. pc = 15 => reg'.ipr[SPI_1] = 4
    BY <1>1, StartUpCalls, SecureInts DEF Call, Effect, PrioritySet, Registers
  <1>19. pc > 6 => SPI_1 \notin reg'.isr
    <2>1. pc > 6 /\ c.f = "security_config" => c.i # SPI_1
      BY <1>1, <1>2, StartUpCalls
         DEF Call, SPI_1, SCUTIMER, GEM0, TTC0_2
    <2> QED
      BY <2>1, <1>1, <1>2, EffectFields, SecureInts DEF Progress
  <1>20. pc > 9 => TTC0_2 \notin reg'.isr
    BY <1>1, <1>2, EffectFields, SecureInts DEF Progress
  <1>21. /\ pc > 10 => c.f # "enable" \/ c.i = SPI_1
         /\ pc > 11 => c.f # "target_set" \/ c.i = SPI_1
         /\ pc > 12 => c.f # "priority_set" \/ c.i = SPI_1
         /\ pc > 13 => c.f # "enable"
         /\ pc > 14 => c.f # "target_set"
    <2> pc \in {1, 2, 3, 4, 5, 6, 7, 8, 9, 10, 11, 12, 13, 14, 15}
      BY <1>1
    <2> QED
      BY StartUpCalls DEF Call
  <1>22. /\ pc > 10 => TTC0_2 \in reg'.ise
         /\ pc > 11 => TTC0_2 \in reg'.iptr
         /\ pc > 12 => reg'.ipr[TTC0_2] = 5
         /\ pc > 13 => SPI_1 \in reg'.ise
         /\ pc > 14 => SPI_1 \in reg'.iptr
    BY <1>1, <1>2, <1>21, EffectFields, SecureInts DEF Progress
  <1> HIDE DEF c
  <1>23. Progress'
    BY <1>1, <1>7, <1>8, <1>9, <1>10, <1>11, <1>12, <1>13, <1>14, <1>15,
       <1>16, <1>17, <1>18, <1>19, <1>20, <1>22 DEF Progress
  <1> QED
    BY <1>4, <1>6, <1>23

\* A later call of S leaves its own two interrupts alone and takes from the
\* settled ones the interrupt whose priority it sets.
LEMMA LaterProgress ==
    ASSUME TypeOK, Progress, NsComesLater, NEW c \in LaterCalls, LaterCall(c)
    PROVE  TypeOK' /\ Progress' /\ NsComesLater'
  <1>1. /\ pc = 16 /\ pc' = pc /\ reg' = Effect(c) /\ reg \in Registers
        /\ found' = found /\ world' = world /\ op' = op
        /\ settled' = settled \ (IF c.f = "priority_set" THEN {c.i} ELSE {})
        /\ settled \in SUBSET Ints
    BY StartUpCalls DEF LaterCall, Started, TypeOK
  <1>2. /\ c.f \in {"enable", "target_set", "priority_set", "critical_entry",
                    "critical_exit"}
        /\ c.f \in {"enable", "target_set", "priority_set"} =>
             c.i \in Ints \ {TTC0_2, SPI_1} /\ c.v \in Nat
    BY LaterCallsAssumption
  <1>3. c.f \in Functions /\ (c.f \in Plain \/ (c.i \in Ints /\ c.v \in Nat))
    BY <1>2 DEF Functions, Plain
  <1>4. reg' \in Registers
    BY <1>1, <1>3, EffectType
  <1>5. TypeOK'
    BY <1>1, <1>4 DEF TypeOK
  <1>6. reg'.dist /\ reg'.intf /\ reg'.isr = reg.isr
    BY <1>1, <1>2, <1>3, EffectFields, SecureInts DEF Progress
  <1>7. \A s \in {TTC0_2, SPI_1} :
          /\ s \in reg'.ise <=> s \in reg.ise
          /\ s \in reg'.iptr <=> s \in reg.iptr
          /\ reg'.ipr[s] = reg.ipr[s]
    <2> TAKE s \in {TTC0_2, SPI_1}
    <2>1. s \in Ints
      BY SecureInts
    <2> QED
      BY <2>1, <1>1, <1>2, <1>3, EffectFields
  <1>8. reg'.pmr = reg.pmr \/ reg'.pmr = 0 \/ reg'.pmr = 15
    <2>1. CASE c.f = "critical_entry"
      BY <2>1, <1>1 DEF Effect, CriticalEntry, Registers
    <2>2. CASE c.f = "critical_exit"
      BY <2>2, <1>1 DEF Effect, CriticalExit, Registers
    <2>3. CASE c.f \in {"enable", "target_set", "priority_set"}
      BY <2>3, <1>1, <1>3, EffectFields, SecureInts
    <2> QED
      BY <1>2, <2>1, <2>2, <2>3
  <1>9. Progress'
    BY <1>1, <1>6, <1>7, <1>8 DEF Progress
  <1>10. \A i \in settled' : reg'.ipr[i] > 7
    <2> TAKE i \in settled'
    <2>1. i \in settled /\ i \in Ints /\ (c.f = "priority_set" => c.i # i)
      BY <1>1
    <2>2. reg'.ipr[i] = reg.ipr[i]
      BY <2>1, <1>1, <1>2, <1>3, EffectFields
    <2> QED
      BY <2>1, <2>2 DEF NsComesLater
  <1>11. NsComesLater'
    BY <1>1, <1>10 DEF NsComesLater
  <1> QED
    BY <1>5, <1>9, <1>11

-----------------------------------------------------------------------------
\* A step of NS that changes registers keeps the invariant if it leaves the
\* fields of the interrupts outside ICDISR alone, brings no priority above 8
\* and touches the mask only in its lower half.
LEMMA NsKeeps ==
    ASSUME TypeOK, Progress, NsComesLater,
           world = "NS", world' = "NS", pc' = pc, found' = found,
           reg' \in Registers, op' \in Ops, settled' \in SUBSET Ints,
           reg'.dist = reg.dist, reg'.intf = reg.intf, reg'.isr = reg.isr,
           \A s \in Ints \ reg.isr :
             /\ s \in reg'.ise <=> s \in reg.ise
             /\ s \in reg'.iptr <=> s \in reg.iptr
             /\ reg'.ipr[s] = reg.ipr[s],
           reg'.pmr = reg.pmr \/ (reg.pmr > 7 /\ reg'.pmr > 7),
           \A i \in settled' : reg'.ipr[i] > 7
    PROVE  TypeOK' /\ Progress' /\ NsComesLater'
  <1>1. pc = 16
    BY StartUpCalls DEF TypeOK, NsComesLater
  <1>2. TypeOK'
    BY DEF TypeOK
  <1>3. TTC0_2 \in Ints \ reg.isr /\ SPI_1 \in Ints \ reg.isr
    BY <1>1, SecureInts DEF Progress
  <1>4. Progress'
    BY <1>1, <1>3 DEF Progress
  <1>5. NsComesLater'
    BY <1>1 DEF NsComesLater
  <1> QED
    BY <1>2, <1>4, <1>5

\* interrupt_enable called by NS.
LEMMA NsEnableKeeps ==
    ASSUME TypeOK, Progress, NsComesLater,
           NEW i \in Ints, NEW v \in {0, 1}, NsEnable(i, v)
    PROVE  TypeOK' /\ Progress' /\ NsComesLater'
  <1>1. /\ world = "NS" /\ world' = "NS" /\ pc' = pc /\ found' = found
        /\ op' \in Ops /\ settled' = settled /\ settled \in SUBSET Ints
        /\ reg \in Registers
    BY DEF NsEnable, NsRunning, TypeOK
  <1>2. reg' \in Registers
    BY <1>1 DEF NsEnable, InterruptEnable, Registers
  <1>3. /\ reg'.dist = reg.dist /\ reg'.intf = reg.intf /\ reg'.isr = reg.isr
        /\ reg'.iptr = reg.iptr /\ reg'.ipr = reg.ipr /\ reg'.pmr = reg.pmr
        /\ \A s \in Ints \ reg.isr : s \in reg'.ise <=> s \in reg.ise
    BY <1>1 DEF NsEnable, InterruptEnable, Registers
  <1>4. \A j \in settled' : reg'.ipr[j] > 7
    BY <1>1, <1>3 DEF NsComesLater
  <1> QED
    BY <1>1, <1>2, <1>3, <1>4, NsKeeps

\* A write of ICCPMR by NS.
LEMMA NsCriticalKeeps ==
    ASSUME TypeOK, Progress, NsComesLater, NEW v \in {0, 15}, NsCritical(v)
    PROVE  TypeOK' /\ Progress' /\ NsComesLater'
  <1>1. /\ world = "NS" /\ world' = "NS" /\ pc' = pc /\ found' = found
        /\ op' \in Ops /\ settled' = settled /\ settled \in SUBSET Ints
        /\ reg \in Registers /\ reg.pmr \in 0..15
    BY DEF NsCritical, NsRunning, TypeOK, Registers, Nibbles
  <1>2. 8 + v \div 2 \in 8..15
    OBVIOUS
  <1>3. 8 + v \div 2 \in Nibbles
    BY <1>2 DEF Nibbles
  <1>4. reg' \in Registers
    BY <1>1, <1>3 DEF NsCritical, Registers
  <1>5. /\ reg'.dist = reg.dist /\ reg'.intf = reg.intf /\ reg'.isr = reg.isr
        /\ reg'.iptr = reg.iptr /\ reg'.ipr = reg.ipr /\ reg'.ise = reg.ise
        /\ reg'.pmr = reg.pmr \/ (reg.pmr > 7 /\ reg'.pmr > 7)
    BY <1>1, <1>2 DEF NsCritical, Registers
  <1>6. \A j \in settled' : reg'.ipr[j] > 7
    BY <1>1, <1>5 DEF NsComesLater
  <1> QED
    BY <1>1, <1>4, <1>5, <1>6, NsKeeps

\* The first halves of the two read-modify-writes change no register.
LEMMA NsReadKeeps ==
    ASSUME TypeOK, Progress, NsComesLater, NEW i \in Ints,
           \/ \E p \in Prios : NsPriorityRead(i, p)
           \/ \E v \in {0, 1} : NsTargetRead(i, v)
    PROVE  TypeOK' /\ Progress' /\ NsComesLater'
  <1>1. /\ world = "NS" /\ world' = "NS" /\ pc' = pc /\ found' = found
        /\ settled' = settled /\ settled \in SUBSET Ints
        /\ reg' = reg /\ reg \in Registers
    BY DEF NsPriorityRead, NsTargetRead, NsRunning, TypeOK
  <1>2. op' \in Ops
    <2>1. ASSUME NEW p \in Prios, NsPriorityRead(i, p)
          PROVE  op' \in Ops
      <3> DEFINE w == [j \in Word(i) |->
                          IF j = i THEN p % 16
                          ELSE IF j \in reg.isr THEN (2 * reg.ipr[j]) % 16
                          ELSE 0]
      <3>1. \A j \in Word(i) : reg.ipr[j] \in 0..15
        BY <1>1 DEF Word, Registers, Nibbles
      <3>2. p \in Nat
        BY NsAssumption
      <3>3. w \in [Word(i) -> Nibbles]
        BY <3>1, <3>2 DEF Nibbles
      <3> HIDE DEF w
      <3>4. [kind |-> "priority", int |-> i, word |-> w] \in Ops
        BY <3>3 DEF Ops
      <3> QED
        BY <2>1, <3>4 DEF NsPriorityRead, w
    <2>2. ASSUME NEW v \in {0, 1}, NsTargetRead(i, v)
          PROVE  op' \in Ops
      <3> DEFINE w == [j \in Word(i) |->
                          IF j = i THEN v
                          ELSE IF j \in reg.isr \cap reg.iptr THEN 1 ELSE 0]
      <3>1. w \in [Word(i) -> Nibbles]
        BY DEF Nibbles
      <3> HIDE DEF w
      <3>2. [kind |-> "target", int |-> i, word |-> w] \in Ops
        BY <3>1 DEF Ops
      <3> QED
        BY <2>2, <3>2 DEF NsTargetRead, w
    <2> QED
      BY <2>1, <2>2
  <1>3. \A j \in settled' : reg'.ipr[j] > 7
    BY <1>1 DEF NsComesLater
  <1> QED
    BY <1>1, <1>2, <1>3, NsKeeps

\* The word NS is about to write back.
LEMMA OpWord ==
    ASSUME TypeOK, op.kind \in {"priority", "target"}
    PROVE  /\ op.int \in Ints
           /\ op.word \in [Word(op.int) -> Nibbles]
           /\ op.int \in Word(op.int)
  <1>1. op # NoOp
    BY DEF NoOp
  <1>2. PICK i \in Ints :
          op \in [kind : {"priority", "target"}, int : {i},
                  word : [Word(i) -> Nibbles]]
    BY <1>1 DEF TypeOK, Ops
  <1>3. op.int = i /\ op.word \in [Word(i) -> Nibbles]
    BY <1>2
  <1> QED
    BY <1>3 DEF Word

\* The second half of interrupt_priority_set called by NS: whatever was
\* read, and whenever, what is written lies in the lower half.
LEMMA NsPriorityWriteKeeps ==
    ASSUME TypeOK, Progress, NsComesLater, NsPriorityWrite
    PROVE  TypeOK' /\ Progress' /\ NsComesLater'
  <1>1. /\ world = "NS" /\ world' = "NS" /\ pc' = pc /\ found' = found
        /\ op' = NoOp /\ settled' = settled \cup ({op.int} \cap reg.isr)
        /\ settled \in SUBSET Ints /\ reg \in Registers
    BY DEF NsPriorityWrite, TypeOK
  <1>2. /\ op.int \in Ints /\ op.word \in [Word(op.int) -> Nibbles]
        /\ op.int \in Word(op.int)
    BY OpWord DEF NsPriorityWrite
  <1> DEFINE new == [j \in Ints |-> IF j \in DOMAIN op.word \cap reg.isr
                                    THEN 8 + op.word[j] \div 2
                                    ELSE reg.ipr[j]]
  <1>3. DOMAIN op.word = Word(op.int)
    BY <1>2
  <1>4. reg.ipr \in [Ints -> Nibbles]
    BY <1>1 DEF Registers
  <1>5. \A j \in Word(op.int) : 8 + op.word[j] \div 2 \in 8..15
    BY <1>2 DEF Nibbles
  <1>6. new \in [Ints -> Nibbles]
    BY <1>3, <1>4, <1>5 DEF Nibbles
  <1>7. /\ \A j \in Ints \ reg.isr : new[j] = reg.ipr[j]
        /\ \A j \in Ints : new[j] = reg.ipr[j] \/ new[j] \in 8..15
        /\ op.int \in reg.isr => new[op.int] \in 8..15
    BY <1>2, <1>3, <1>5
  <1>8. reg' = [reg EXCEPT !.ipr = new]
    BY DEF NsPriorityWrite
  <1> HIDE DEF new
  <1>9. reg' \in Registers
    BY <1>1, <1>6, <1>8 DEF Registers
  <1>10. /\ reg'.dist = reg.dist /\ reg'.intf = reg.intf /\ reg'.isr = reg.isr
         /\ reg'.iptr = reg.iptr /\ reg'.ise = reg.ise /\ reg'.pmr = reg.pmr
         /\ reg'.ipr = new
    BY <1>1, <1>8 DEF Registers
  <1>11. op' \in Ops /\ settled' \in SUBSET Ints
    BY <1>1, <1>2 DEF Ops
  <1>12. \A j \in settled' : reg'.ipr[j] > 7
    <2> TAKE j \in settled'
    <2>1. CASE j \in settled
      <3>1. j \in Ints /\ reg.ipr[j] > 7
        BY <2>1, <1>1 DEF NsComesLater
      <3> QED
        BY <3>1, <1>7, <1>10
    <2>2. CASE j = op.int /\ op.int \in reg.isr
      BY <2>2, <1>7, <1>10
    <2> QED
      BY <2>1, <2>2, <1>1
  <1> QED
    BY <1>1, <1>7, <1>9, <1>10, <1>11, <1>12, NsKeeps

\* The second half of interrupt_target_set called by NS.
LEMMA NsTargetWriteKeeps ==
    ASSUME TypeOK, Progress, NsComesLater, NsTargetWrite
    PROVE  TypeOK' /\ Progress' /\ NsComesLater'
  <1>1. /\ world = "NS" /\ world' = "NS" /\ pc' = pc /\ found' = found
        /\ op' = NoOp /\ settled' = settled
        /\ settled \in SUBSET Ints /\ reg \in Registers
    BY DEF NsTargetWrite, TypeOK
  <1> DEFINE mine == DOMAIN op.word \cap reg.isr \cap Global
             new == (reg.iptr \ mine) \cup {j \in mine : op.word[j] = 1}
  <1>2. reg' = [reg EXCEPT !.iptr = new]
    BY DEF NsTargetWrite
  <1>3. /\ new \in SUBSET Ints
        /\ \A j \in Ints \ reg.isr : j \in new <=> j \in reg.iptr
    BY <1>1 DEF Registers, Global
  <1> HIDE DEF new
  <1>4. reg' \in Registers
    BY <1>1, <1>2, <1>3 DEF Registers
  <1>5. /\ reg'.dist = reg.dist /\ reg'.intf = reg.intf /\ reg'.isr = reg.isr
        /\ reg'.ipr = reg.ipr /\ reg'.ise = reg.ise /\ reg'.pmr = reg.pmr
        /\ reg'.iptr = new
    BY <1>1, <1>2 DEF Registers
  <1>6. op' \in Ops /\ settled' \in SUBSET Ints
    BY <1>1 DEF Ops
  <1>7. \A j \in settled' : reg'.ipr[j] > 7
    BY <1>1, <1>5 DEF NsComesLater
  <1> QED
    BY <1>1, <1>3, <1>4, <1>5, <1>6, <1>7, NsKeeps

-----------------------------------------------------------------------------
\* Every step keeps the invariant.
LEMMA StepKeeps ==
    ASSUME IInv, [Next]_vars
    PROVE  IInv'
  <1> USE DEF IInv
  <1>1. CASE StartUpCall
    BY <1>1, StartUpProgress
  <1>2. CASE DistributorMissing
    BY <1>2, StartUpCalls
       DEF DistributorMissing, Stuck, TypeOK, Progress, NsComesLater
  <1>3. CASE ErrorLoop \/ UNCHANGED vars
    <2>1. /\ reg' = reg /\ found' = found /\ pc' = pc /\ world' = world
          /\ op' = op /\ settled' = settled
      BY <1>3 DEF ErrorLoop, vars
    <2>2. TypeOK'
      BY <2>1 DEF TypeOK
    <2>3. Progress'
      BY <2>1 DEF Progress
    <2>4. NsComesLater'
      BY <2>1 DEF NsComesLater
    <2> QED
      BY <2>2, <2>3, <2>4
  <1>4. ASSUME NEW c \in LaterCalls, LaterCall(c)
        PROVE  IInv'
    BY <1>4, LaterProgress
  <1>5. CASE Yield
    <2>1. pc = 16
      BY <1>5, StartUpCalls DEF Yield, Started
    <2> QED
      BY <1>5, <2>1 DEF Yield, TypeOK, Progress, NsComesLater
  <1>6. CASE Fiq
    BY <1>6 DEF Fiq, TypeOK, Progress, NsComesLater
  <1>7. CASE NsStep
    <2>1. ASSUME NEW i \in NsInts, NEW v \in {0, 1}, NsEnable(i, v)
          PROVE  IInv'
      BY <2>1, NsAssumption, NsEnableKeeps
    <2>2. ASSUME NEW i \in NsInts,
                 \/ \E p \in Prios : NsPriorityRead(i, p)
                 \/ \E v \in {0, 1} : NsTargetRead(i, v)
          PROVE  IInv'
      BY <2>2, NsAssumption, NsReadKeeps
    <2>3. ASSUME NEW v \in {0, 15}, NsCritical(v)
          PROVE  IInv'
      BY <2>3, NsCriticalKeeps
    <2> QED
      BY <1>7, <2>1, <2>2, <2>3, NsPriorityWriteKeeps, NsTargetWriteKeeps
         DEF NsStep
  <1> QED
    BY <1>1, <1>2, <1>3, <1>4, <1>5, <1>6, <1>7 DEF Next

\* The invariant holds in every state.
LEMMA Invariance == Spec => []IInv
  <1>1. Init => IInv
    BY BootsAssumption, StartUpCalls
       DEF Init, IInv, TypeOK, Progress, NsComesLater, Ops
  <1>2. IInv /\ [Next]_vars => IInv'
    BY StepKeeps
  <1> QED
    BY <1>1, <1>2, PTL DEF Spec

\* The registers, the start-up counter and the call NS is in are well typed:
\* no value of the driver exceeds its field.
THEOREM GicTypeCorrect == Spec => []TypeOK
  <1>1. IInv => TypeOK
    BY DEF IInv
  <1> QED
    BY <1>1, Invariance, PTL

\* Once S has started, its interrupts stay its own, enabled, targeted, at
\* the priorities of hw_init and, outside its critical sections, unmasked,
\* whatever NS does with the registers they share.
THEOREM SecureInterruptsStayReady == Spec => []SecureInterruptsReady
  <1>1. IInv => SecureInterruptsReady
    <2> SUFFICES ASSUME IInv, Started
                 PROVE  /\ reg.dist /\ reg.intf
                        /\ \A i \in DOMAIN SecurePrio :
                             /\ i \notin reg.isr
                             /\ i \in reg.ise
                             /\ i \in reg.iptr
                             /\ reg.ipr[i] = SecurePrio[i]
                             /\ reg.pmr # 0 => reg.ipr[i] < reg.pmr
      BY DEF SecureInterruptsReady
    <2>1. pc = 16 /\ reg.pmr \in 0..15
      BY StartUpCalls DEF Started, IInv, TypeOK, Registers, Nibbles
    <2>2. SecurePrio[TTC0_2] = 5 /\ SecurePrio[SPI_1] = 4
      BY SecureInts DEF SecurePrio
    <2>3. DOMAIN SecurePrio = {TTC0_2, SPI_1}
      BY DEF SecurePrio
    <2> QED
      BY <2>1, <2>2, <2>3 DEF IInv, Progress
  <1> QED
    BY <1>1, Invariance, PTL

\* Interrupts whose priority NS has set stay below both interrupts of S.
THEOREM SettledStayBelow == Spec => []SettledBelowSecure
  <1>1. IInv => SettledBelowSecure
    <2> SUFFICES ASSUME IInv, NEW i \in settled, NEW s \in DOMAIN SecurePrio
                 PROVE  reg.ipr[s] < reg.ipr[i]
      BY DEF SettledBelowSecure
    <2>1. pc = 16
      BY StartUpCalls DEF IInv, TypeOK, NsComesLater
    <2>2. s \in {TTC0_2, SPI_1}
      BY DEF SecurePrio
    <2>3. reg.ipr[s] = 5 \/ reg.ipr[s] = 4
      BY <2>1, <2>2 DEF IInv, Progress
    <2>4. reg.ipr[i] \in 0..15 /\ reg.ipr[i] > 7
      BY DEF IInv, TypeOK, Registers, Nibbles, NsComesLater
    <2> QED
      BY <2>3, <2>4
  <1> QED
    BY <1>1, Invariance, PTL
=============================================================================
