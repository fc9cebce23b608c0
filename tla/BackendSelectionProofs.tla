------------------------ MODULE BackendSelectionProofs ------------------------
(***************************************************************************)
(* Proofs about BackendSelection for any number of devices and options: a  *)
(* command runs on the device its options name, and automatic selection    *)
(* neither resolves to a backend that then finds no device nor has a       *)
(* command refused that some eligible device could have served.            *)
(***************************************************************************)
EXTENDS BackendSelection, TLAPS, WellFoundedInduction

-----------------------------------------------------------------------------
(* The inductive invariant: what each stage established still holds at     *)
(* every later one, because neither the options nor the devices change.    *)

Stages == {"resolve", "validate", "open", "rejected", "failed", "running"}

SelectionTypes ==
  /\ options \in CommandLines /\ devices \in DeviceLists
  /\ backend \in Backends /\ container \in {"ogg", "native"}
  /\ pc \in Stages

Resolved ==
  /\ backend = IF options.backend # "auto" THEN options.backend
               ELSE IF ConstrainedToCpu THEN "cpu"
               ELSE SelectAutomatic
  /\ container = IF options.container # "default" THEN options.container
                 ELSE IF backend \in NativeFlac THEN "native"
                 ELSE "ogg"

SelectionInv ==
  /\ SelectionTypes
  /\ pc # "resolve" => Resolved
  /\ pc \in {"open", "failed", "running"} => Compatible
  /\ pc = "running" /\ backend \in Accelerated => device = Selected(backend) /\ device # {}
  /\ pc = "rejected" => ~Compatible
  /\ pc = "failed" => backend \in Accelerated /\ Selected(backend) = {}

\* A set of numbers that is not empty has a least one.
LEMMA LeastNumber ==
  ASSUME NEW T, T \subseteq Nat, T # {}
  PROVE  \E x \in T : \A y \in T : x <= y
<1>1. PICK x \in T : \A y \in T : ~(<<y, x>> \in OpToRel(<, Nat))
  BY NatLessThanWellFounded, WFMin, Zenon
<1>2. ASSUME NEW y \in T PROVE x <= y
  <2>1. x \in Nat /\ y \in Nat  OBVIOUS
  <2>2. ~(y < x)  BY <1>1, <2>1 DEF OpToRel
  <2>3. QED  BY <2>1, <2>2
<1>3. QED  BY <1>2

LEMMA FirstExists ==
  ASSUME NEW T, T \subseteq Nat, T # {}
  PROVE  FirstOf(T) # {}
BY LeastNumber DEF FirstOf

\* The indices of every list are numbers.
LEMMA DeviceIndices ==
  ASSUME SelectionTypes
  PROVE  /\ DOMAIN devices.metal \subseteq Nat
         /\ DOMAIN devices.vulkan \subseteq Nat
         /\ DOMAIN devices.opencl \subseteq Nat
<1>1. ASSUME NEW kind, NEW d \in Lists(kind) PROVE DOMAIN d \subseteq Nat
  BY <1>1, SelectionAssumption DEF Lists
<1>2. /\ \E kind : devices.metal \in Lists(kind)
      /\ \E kind : devices.vulkan \in Lists(kind)
      /\ \E kind : devices.opencl \in Lists(kind)
  BY DEF SelectionTypes, DeviceLists
<1>3. QED  BY <1>1, <1>2

\* A requested index names one device, and what a selection makes of it is that
\* device or nothing.
LEMMA RequestTypes ==
  ASSUME SelectionTypes, NEW name \in {"device", "opencl", "vulkan", "metal"}
  PROVE  options.request[name] \in Index
BY DEF SelectionTypes, CommandLines, Requests

LEMMA RequestedOrNone ==
  ASSUME SelectionTypes, NEW name \in {"device", "opencl", "vulkan", "metal"}, NEW T,
         options.request[name] \cap T # {}
  PROVE  options.request[name] \cap T = options.request[name]
BY RequestTypes DEF Index

LEMMA SelectedBy ==
  /\ Selected("metal") = SelectMetal
  /\ Selected("vulkan") = SelectVulkanAnalysis
  /\ Selected("opencl") = ChooseOpenCl
BY DEF Selected

\* A session given an index selects among the devices with that index.
LEMMA SelectionWithinRequest ==
  ASSUME NEW api \in Accelerated, EffectiveIndex(api) # {}
  PROVE  \E T : Selected(api) = EffectiveIndex(api) \cap T
<1>1. CASE api = "metal"
  <2>1. SelectMetal = EffectiveIndex("metal") \cap DOMAIN devices.metal
    BY <1>1 DEF SelectMetal
  <2>2. QED  BY <1>1, <2>1, SelectedBy
<1>2. CASE api = "vulkan"
  <2> DEFINE usable == {i \in DOMAIN devices.vulkan : devices.vulkan[i].usable}
  <2>1. SelectVulkanAnalysis = EffectiveIndex("vulkan") \cap usable
    BY <1>2, Zenon DEF SelectVulkanAnalysis
  <2>2. QED  BY <1>2, <2>1, SelectedBy
<1>3. CASE api = "opencl"
  <2> DEFINE available == {i \in DOMAIN devices.opencl : devices.opencl[i].available}
  <2>1. ChooseOpenCl = EffectiveIndex("opencl") \cap available
    BY <1>3, Zenon DEF ChooseOpenCl
  <2>2. QED  BY <1>3, <2>1, SelectedBy
<1>4. QED  BY <1>1, <1>2, <1>3 DEF Accelerated

\* What automatic selection resolves to has a device for the session to find.
LEMMA AutomaticFindsDevice ==
  ASSUME SelectionTypes, SelectAutomatic \in Accelerated
  PROVE  Selected(SelectAutomatic) # {}
<1>1. CASE SelectAutomatic = "metal"
  <2>1. AvailableMetal # {}  BY <1>1 DEF SelectAutomatic
  <2>2. AvailableMetal = SelectMetal  BY Zenon DEF AvailableMetal, SelectMetal
  <2>3. QED  BY <1>1, <2>1, <2>2, SelectedBy
<1>2. CASE SelectAutomatic = "vulkan"
  <2>1. AvailableVulkan # {}  BY <1>2 DEF SelectAutomatic
  <2>2. AvailableVulkan = SelectVulkanAnalysis
    BY Zenon DEF AvailableVulkan, SelectVulkanAnalysis
  <2>3. QED  BY <1>2, <2>1, <2>2, SelectedBy
<1>3. CASE SelectAutomatic = "opencl"
  <2> DEFINE available == {i \in DOMAIN devices.opencl : devices.opencl[i].available}
  <2>1. AvailableOpenClAccelerator # {}  BY <1>3 DEF SelectAutomatic
  <2>2. PICK i \in DOMAIN devices.opencl :
          devices.opencl[i].available /\ EffectiveIndex("opencl") \in {{}, {i}}
    BY <2>1 DEF AvailableOpenClAccelerator, FirstOf
  <2>3. i \in available /\ available \subseteq Nat  BY <2>2, DeviceIndices
  <2>4. FirstOf(available) # {}  BY <2>3, FirstExists
  <2>5. ChooseOpenCl = IF EffectiveIndex("opencl") # {}
                       THEN EffectiveIndex("opencl") \cap available
                       ELSE FirstOf(available)
    BY Zenon DEF ChooseOpenCl
  <2>6. ChooseOpenCl # {}
    <3> HIDE DEF available
    <3>1. QED  BY <2>2, <2>3, <2>4, <2>5
  <2>7. QED  BY <1>3, <2>6, SelectedBy
<1>4. QED  BY <1>1, <1>2, <1>3 DEF Accelerated

-----------------------------------------------------------------------------
LEMMA SelectionInit == Init => SelectionInv
BY DEF Init, SelectionInv, SelectionTypes, Stages, Backends, NativeFlac, Accelerated

LEMMA ResolveKeeps ==
  ASSUME SelectionInv, Resolve
  PROVE  SelectionInv'
<1>1. /\ options \in CommandLines /\ devices \in DeviceLists
      /\ UNCHANGED <<options, devices>> /\ pc' = "validate"
  BY DEF SelectionInv, SelectionTypes, Resolve
<1>2. options.backend \in Backends \cup {"auto"} /\ options.container \in {"default", "ogg", "native"}
  BY <1>1 DEF CommandLines
<1>3. SelectAutomatic \in Backends
  BY DEF SelectAutomatic, Backends, NativeFlac, Accelerated
<1>4. backend' \in Backends
  BY <1>2, <1>3 DEF Resolve, Backends
<1>5. container' \in {"ogg", "native"}
  BY <1>2 DEF Resolve
<1>6. ConstrainedToCpu' = ConstrainedToCpu /\ SelectAutomatic' = SelectAutomatic
  BY <1>1 DEF ConstrainedToCpu, SelectAutomatic, AvailableMetal, AvailableVulkan,
              AvailableOpenClAccelerator, EffectiveIndex
<1>7. Resolved'
  BY <1>1, <1>6 DEF Resolved, Resolve
<1>8. QED  BY <1>1, <1>4, <1>5, <1>7 DEF SelectionInv, SelectionTypes, Stages

\* Nothing a stage established depends on the program counter.
LEMMA StageFrame ==
  ASSUME UNCHANGED <<options, devices, backend, container>>
  PROVE  /\ Resolved' = Resolved /\ Compatible' = Compatible
         /\ Selected(backend)' = Selected(backend)
<1>1. Resolved' = Resolved
  BY DEF Resolved, ConstrainedToCpu, SelectAutomatic, AvailableMetal, AvailableVulkan,
         AvailableOpenClAccelerator, EffectiveIndex
<1>2. Compatible' = Compatible
  BY DEF Compatible
<1>3. Selected(backend)' = Selected(backend)
  BY DEF Selected, SelectMetal, SelectVulkanAnalysis, ChooseOpenCl, EffectiveIndex
<1>4. QED  BY <1>1, <1>2, <1>3

LEMMA SelectionInvInductive ==
  ASSUME SelectionInv, [Next]_vars
  PROVE  SelectionInv'
<1>1. CASE Resolve
  BY <1>1, ResolveKeeps
<1>2. CASE Validate
  <2>1. pc \notin {"resolve", "running", "failed"} /\ pc' \in {"open", "rejected"}
        /\ (pc' = "open" => Compatible) /\ (pc' = "rejected" => ~Compatible)
    BY <1>2 DEF Validate
  <2>2. UNCHANGED <<options, devices, backend, container, device>>  BY <1>2 DEF Validate
  <2>3. QED  BY <2>1, <2>2, StageFrame DEF SelectionInv, SelectionTypes, Stages
<1>3. CASE OpenSession
  <2>1. pc = "open" /\ UNCHANGED <<options, devices, backend, container>>
    BY <1>3 DEF OpenSession
  <2>2. pc' \in {"failed", "running"}
        /\ (pc' = "failed" => backend \in Accelerated /\ Selected(backend) = {})
        /\ (pc' = "running" /\ backend \in Accelerated =>
              device' = Selected(backend) /\ device' # {})
    BY <1>3 DEF OpenSession
  <2>3. QED  BY <2>1, <2>2, StageFrame DEF SelectionInv, SelectionTypes, Stages
<1>4. CASE Ended \/ UNCHANGED vars
  <2>1. UNCHANGED <<options, devices, backend, container>> /\ UNCHANGED <<device, pc>>
    BY <1>4 DEF Ended, vars
  <2>2. QED  BY <2>1, StageFrame DEF SelectionInv, SelectionTypes
<1>5. QED  BY <1>1, <1>2, <1>3, <1>4 DEF Next

\* What every stage established holds from then on (parse_compress, compress_lds).
THEOREM SelectionInvariance == Spec => []SelectionInv
<1>1. Init => SelectionInv  BY SelectionInit
<1>2. SelectionInv /\ [Next]_vars => SelectionInv'  BY SelectionInvInductive
<1>3. QED  BY <1>1, <1>2, PTL DEF Spec

-----------------------------------------------------------------------------
\* What each probe finds is eligible, and it finds something if anything is.
LEMMA ProbesFindEligible ==
  ASSUME SelectionTypes
  PROVE  /\ AvailableMetal # {} <=> Eligible("metal") # {}
         /\ AvailableVulkan # {} <=> Eligible("vulkan") # {}
         /\ AvailableOpenClAccelerator # {} <=> Eligible("opencl") # {}
<1>1. ASSUME NEW T \in SUBSET Nat PROVE FirstOf(T) \subseteq T /\ (T # {} => FirstOf(T) # {})
  BY FirstExists DEF FirstOf
<1>2. ASSUME NEW name \in {"device", "opencl", "vulkan", "metal"}
      PROVE  options.request[name] = {} \/ \E i : options.request[name] = {i}
  BY RequestTypes DEF Index
<1>3. ASSUME NEW api \in Accelerated
      PROVE  EffectiveIndex(api) = {} \/ \E i : EffectiveIndex(api) = {i}
  BY <1>2 DEF EffectiveIndex, Accelerated
<1>4. ASSUME NEW S \in SUBSET Nat, NEW T \in SUBSET Nat, S \subseteq T
      PROVE  Prefer(S, T) # {} <=> T # {}
  <2>1. CASE S # {}
    <3>1. FirstOf(S) # {} /\ Prefer(S, T) = FirstOf(S)
      BY <1>1, <2>1 DEF Prefer
    <3>2. QED  BY <1>4, <2>1, <3>1
  <2>2. CASE S = {}
    <3>1. Prefer(S, T) = FirstOf(T)  BY <2>2 DEF Prefer
    <3>2. (T # {} => FirstOf(T) # {}) /\ FirstOf(T) \subseteq T  BY <1>1
    <3>3. QED  BY <3>1, <3>2
  <2>3. QED  BY <2>1, <2>2
<1>5. AvailableMetal # {} <=> Eligible("metal") # {}
  <2> DEFINE all == DOMAIN devices.metal
             index == EffectiveIndex("metal")
             strong == {i \in all : ~devices.metal[i].lowPower}
  <2>1. AvailableMetal = IF index # {} THEN index \cap all ELSE Prefer(strong, all)
    BY Zenon DEF AvailableMetal
  <2>2. Eligible("metal") = {i \in all : index \in {{}, {i}}}
    BY DEF Eligible
  <2>3. all \in SUBSET Nat /\ strong \in SUBSET Nat /\ strong \subseteq all
    BY DeviceIndices
  <2>4. index = {} \/ \E i : index = {i}
    BY <1>3 DEF Accelerated
  <2> HIDE DEF all, index, strong
  <2>5. QED
    BY <1>4, <2>1, <2>2, <2>3, <2>4
<1>6. AvailableVulkan # {} <=> Eligible("vulkan") # {}
  <2> DEFINE index == EffectiveIndex("vulkan")
             usable == {i \in DOMAIN devices.vulkan : devices.vulkan[i].usable}
             typed(types) == {i \in usable : devices.vulkan[i].type \in types}
             discrete == typed({"discrete-gpu"})
             hardware == typed({"discrete-gpu", "integrated-gpu"})
  <2>1. AvailableVulkan = IF index # {} THEN index \cap usable ELSE Prefer(discrete, hardware)
    BY Zenon DEF AvailableVulkan
  <2>2. Eligible("vulkan") = {i \in usable : /\ index \in {{}, {i}}
                                             /\ i \in hardware \/ index # {}}
    <3>1. ASSUME NEW i \in usable PROVE i \in hardware <=> devices.vulkan[i].type # "cpu"
      BY DEF SelectionTypes, DeviceLists, Lists
    <3>2. QED
      BY <3>1 DEF Eligible
  <2>3. discrete \in SUBSET Nat /\ hardware \in SUBSET Nat /\ discrete \subseteq hardware
        /\ hardware \subseteq usable
    BY DeviceIndices
  <2>4. index = {} \/ \E i : index = {i}
    BY <1>3 DEF Accelerated
  <2> HIDE DEF index, usable, discrete, hardware
  <2>5. QED
    BY <1>4, <2>1, <2>2, <2>3, <2>4
<1>7. AvailableOpenClAccelerator # {} <=> Eligible("opencl") # {}
  <2>1. AvailableOpenClAccelerator = FirstOf(Eligible("opencl"))
    BY DEF AvailableOpenClAccelerator, Eligible
  <2>2. Eligible("opencl") \in SUBSET Nat
    BY DeviceIndices DEF Eligible
  <2>3. QED
    BY <1>1, <2>1, <2>2
<1>8. QED
  BY <1>5, <1>6, <1>7

\* Automatic selection takes the first interface with an eligible device.
LEMMA AutomaticTakesFirst ==
  ASSUME SelectionTypes
  PROVE  /\ SelectAutomatic \in Accelerated \cup {"cpu"}
         /\ SelectAutomatic = "cpu" => \A api \in Accelerated : Eligible(api) = {}
         /\ SelectAutomatic \in Accelerated =>
              /\ Eligible(SelectAutomatic) # {}
              /\ \A api \in Accelerated : Order[api] < Order[SelectAutomatic] => Eligible(api) = {}
<1>1. /\ Order["metal"] = 1 /\ Order["vulkan"] = 2 /\ Order["opencl"] = 3
  BY DEF Order
<1>2. QED
  BY <1>1, ProbesFindEligible DEF SelectAutomatic, Accelerated

LEMMA RequestedRunsNow == SelectionInv => RequestedDeviceRuns
<1> SUFFICES ASSUME SelectionInv, pc = "running",
                    NEW name \in DOMAIN options.request, options.request[name] # {}
             PROVE  /\ backend \in Accelerated
                    /\ \A api \in Accelerated :
                         options.request[api] # {} =>
                           backend = api /\ device = options.request[api]
                    /\ (\A api \in Accelerated : options.request[api] = {}) =>
                         device = options.request.device
                    /\ options.backend = "auto" =>
                         /\ device \subseteq Eligible(backend)
                         /\ \A api \in Accelerated :
                              Order[api] < Order[backend] => Eligible(api) = {}
  BY DEF RequestedDeviceRuns
<1>1. Compatible /\ SelectionTypes /\ Resolved
      /\ (backend \in Accelerated => device = Selected(backend) /\ device # {})
  BY DEF SelectionInv
<1>2. name \in Accelerated \cup {"device"}
  BY <1>1 DEF SelectionTypes, CommandLines, Requests, Accelerated
<1>3. backend \in Accelerated
  BY <1>1, <1>2 DEF Compatible
<1>4. /\ EffectiveIndex(backend) # {}
      /\ \A api \in Accelerated :
           options.request[api] # {} => backend = api /\ EffectiveIndex(backend) = options.request[api]
      /\ (\A api \in Accelerated : options.request[api] = {}) =>
           EffectiveIndex(backend) = options.request["device"]
  BY <1>1, <1>2, <1>3 DEF Compatible, EffectiveIndex
<1>5. device = EffectiveIndex(backend)
  <2>1. PICK T : Selected(backend) = EffectiveIndex(backend) \cap T
    BY <1>3, <1>4, SelectionWithinRequest
  <2>2. PICK asked \in {"device", "opencl", "vulkan", "metal"} :
          EffectiveIndex(backend) = options.request[asked]
    BY <1>3 DEF EffectiveIndex, Accelerated
  <2>3. QED  BY <1>1, <1>3, <2>1, <2>2, RequestedOrNone
<1>6. ASSUME options.backend = "auto"
      PROVE  /\ device \subseteq Eligible(backend)
             /\ \A api \in Accelerated : Order[api] < Order[backend] => Eligible(api) = {}
  <2>1. backend = SelectAutomatic
    BY <1>1, <1>3, <1>6 DEF Resolved, Accelerated
  <2>2. /\ Eligible(backend) # {}
        /\ \A api \in Accelerated : Order[api] < Order[backend] => Eligible(api) = {}
    BY <1>1, <1>3, <2>1, AutomaticTakesFirst
  <2>3. PICK i \in Eligible(backend) : EffectiveIndex(backend) = {i}
    BY <1>4, <2>2 DEF Eligible
  <2>4. QED  BY <1>5, <2>2, <2>3
<1>7. QED  BY <1>3, <1>4, <1>5, <1>6

\* A command runs on the device its options name, --device only where the backend's
\* own option is absent; an automatic one on the first interface that has that device
\* (effective_*_device_index, parse_compress, select_*_device).
THEOREM RequestedDevice == Spec => []RequestedDeviceRuns
BY SelectionInvariance, RequestedRunsNow, PTL

LEMMA RefusedForCauseNow == SelectionInv => AutomaticRefusedForCause
<1> DEFINE held == "level" \in options.flags \/ options.container = "ogg"
           none == \A api \in Accelerated : Eligible(api) = {}
           needs == \/ options.flags \cap NativeOnly # {}
                    \/ \E name \in DOMAIN options.request : options.request[name] # {}
           other == \E api \in Accelerated : \E second \in Accelerated \ {api} :
                      options.request[api] # {} /\ Eligible(second) # {}
<1> SUFFICES ASSUME SelectionInv, options.backend = "auto", pc \in {"rejected", "failed"}
             PROVE  (needs /\ (held \/ none)) \/ other
  BY DEF AutomaticRefusedForCause
<1>1. SelectionTypes /\ Resolved /\ (pc = "rejected" => ~Compatible)
      /\ (pc = "failed" => backend \in Accelerated /\ Selected(backend) = {})
  BY DEF SelectionInv
<1>2. backend = IF held THEN "cpu" ELSE SelectAutomatic
  BY <1>1 DEF Resolved, ConstrainedToCpu
<1>3. pc = "rejected"
  <2>1. backend \in Accelerated => Selected(backend) # {}
    BY <1>1, <1>2, AutomaticFindsDevice DEF Accelerated
  <2>2. QED  BY <1>1, <2>1
<1>4. DOMAIN options.request = Accelerated \cup {"device"}
  BY <1>1 DEF SelectionTypes, CommandLines, Requests, Accelerated
<1>5. CASE backend = "cpu"
  <2>1. held \/ none
    BY <1>1, <1>2, <1>5, AutomaticTakesFirst
  <2>2. needs
    BY <1>1, <1>3, <1>4, <1>5 DEF Compatible, NativeOnly, NativeFlac, Accelerated
  <2>3. QED  BY <2>1, <2>2
<1>6. CASE backend # "cpu"
  <2>1. ~held /\ backend = SelectAutomatic
    BY <1>2, <1>6
  <2>2. backend \in Accelerated /\ Eligible(backend) # {}
    BY <1>1, <1>6, <2>1, AutomaticTakesFirst
  <2>3. container = "native"
    BY <1>1, <2>1, <2>2 DEF Resolved, NativeFlac, SelectionTypes, CommandLines
  <2>4. PICK api \in Accelerated : options.request[api] # {} /\ backend # api
    BY <1>1, <1>3, <1>6, <2>1, <2>2, <2>3 DEF Compatible, Accelerated
  <2>5. QED  BY <2>2, <2>4
<1>7. QED  BY <1>5, <1>6

\* Automatic selection has no command refused that it could have served: what it
\* resolves to passes the checks at the end of parse_compress and finds a device, unless
\* the options contradict each other or the machine has nothing they can use.
THEOREM RefusedForCause == Spec => []AutomaticRefusedForCause
BY SelectionInvariance, RefusedForCauseNow, PTL

LEMMA AutomaticAgreesNow == SelectionInv => AutomaticRunsProbedDevice
<1> SUFFICES ASSUME SelectionInv, options.backend = "auto"
             PROVE  /\ pc # "failed"
                    /\ pc = "running" /\ backend = "metal"  => device = AvailableMetal
                    /\ pc = "running" /\ backend = "vulkan" => device = AvailableVulkan
  BY DEF AutomaticRunsProbedDevice
<1>1. SelectionTypes  BY DEF SelectionInv
<1>2. ASSUME pc = "failed" PROVE FALSE
  <2>1. backend \in Accelerated /\ Selected(backend) = {} /\ Resolved
    BY <1>2 DEF SelectionInv
  <2>2. backend = SelectAutomatic
    BY <2>1 DEF Resolved, Accelerated
  <2>3. QED  BY <1>1, <2>1, <2>2, AutomaticFindsDevice
<1>3. SelectMetal = AvailableMetal  BY Zenon DEF SelectMetal, AvailableMetal
<1>4. SelectVulkanAnalysis = AvailableVulkan  BY Zenon DEF SelectVulkanAnalysis, AvailableVulkan
<1>5. pc = "running" /\ backend \in {"metal", "vulkan"} => device = Selected(backend)
  BY DEF SelectionInv, Accelerated
<1>6. QED  BY <1>2, <1>3, <1>4, <1>5, SelectedBy

\* Automatic selection never resolves to a backend whose session then finds no
\* device, and with Metal and Vulkan the session runs on the very device the probe
\* found (select_automatic_backend against the selections of the sessions).
THEOREM AutomaticAgrees == Spec => []AutomaticRunsProbedDevice
BY SelectionInvariance, AutomaticAgreesNow, PTL
=============================================================================
