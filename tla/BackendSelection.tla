--------------------------- MODULE BackendSelection ---------------------------
(***************************************************************************)
(* How a compress command gets from its options to the device that runs    *)
(* it.  parse_compress resolves the backend, probing the devices when it   *)
(* is automatic, and checks the options against it; compress_lds then      *)
(* opens a session, which selects a device again, with code of its own and *)
(* only the requested index to go by.  An optional index is a set with at  *)
(* most one element; indices count from 1.  An interface that was not      *)
(* built lists no devices.  The devices stay the same during the command.  *)
(***************************************************************************)
EXTENDS Integers, Sequences, FiniteSets

CONSTANTS MaxDevices,   \* bound: devices listed, over all interfaces
          MaxRequests,  \* bound: device options given at once
          MaxFlags      \* bound: other options given at once

ASSUME SelectionAssumption ==
  MaxDevices \in Nat /\ MaxRequests \in Nat /\ MaxFlags \in Nat

VARIABLES options,      \* the parsed command line
          devices,      \* what the interfaces list
          backend,      \* options.backend once resolved
          container,    \* options.container once resolved
          device,       \* index of the device whose session is open
          pc

vars == <<options, devices, backend, container, device, pc>>

Accelerated == {"opencl", "vulkan", "metal"}
NativeFlac  == Accelerated \cup {"native-verbatim", "native-fixed"}
Backends    == NativeFlac \cup {"cpu"}

Flags == {"level", "threads", "stats", "frame-samples", "prediction"}

Lists(kind) == UNION {[1 .. n -> kind] : n \in 0 .. MaxDevices}
Index == {{}} \cup {{i} : i \in 1 .. MaxDevices}

DeviceLists ==
  {d \in [metal  : Lists([lowPower : BOOLEAN]),
          \* usable: a compute queue and shaderInt64; integrated-gpu stands for
          \* every other class that is not a CPU.
          vulkan : Lists([usable : BOOLEAN,
                          type : {"discrete-gpu", "integrated-gpu", "cpu"}]),
          opencl : Lists([available : BOOLEAN, hardware : BOOLEAN])] :
     Len(d.metal) + Len(d.vulkan) + Len(d.opencl) <= MaxDevices}

Requests ==
  {r \in [device : Index, opencl : Index, vulkan : Index, metal : Index] :
     Cardinality({name \in DOMAIN r : r[name] # {}}) <= MaxRequests}

CommandLines ==
  [backend : Backends \cup {"auto"}, container : {"default", "ogg", "native"},
   flags : {f \in SUBSET Flags : Cardinality(f) <= MaxFlags}, request : Requests]

Init ==
  /\ options \in CommandLines
  /\ devices \in DeviceLists
  /\ backend = "cpu" /\ container = "ogg"
  /\ device = {}
  /\ pc = "resolve"

FirstOf(S) == {i \in S : \A j \in S : i <= j}
Prefer(S, T) == IF S # {} THEN FirstOf(S) ELSE FirstOf(T)

\* Mutant: --device wins over the backend's own option.
EffectiveIndexOfDevice(api) ==
  IF options.request.device # {} THEN options.request.device ELSE options.request[api]

\* effective_*_device_index
EffectiveIndex(api) ==
  IF options.request[api] # {} THEN options.request[api] ELSE options.request.device

-----------------------------------------------------------------------------
(* Probing, in main.cpp. *)

AvailableMetal ==
  LET all == DOMAIN devices.metal
  IN  IF EffectiveIndex("metal") # {}
      THEN EffectiveIndex("metal") \cap all
      ELSE Prefer({i \in all : ~devices.metal[i].lowPower}, all)

AvailableVulkan ==
  LET usable == {i \in DOMAIN devices.vulkan : devices.vulkan[i].usable}
      typed(types) == {i \in usable : devices.vulkan[i].type \in types}
  IN  IF EffectiveIndex("vulkan") # {}
      THEN EffectiveIndex("vulkan") \cap usable
      ELSE Prefer(typed({"discrete-gpu"}), typed({"discrete-gpu", "integrated-gpu"}))

AvailableOpenClAccelerator ==
  FirstOf({i \in DOMAIN devices.opencl :
             /\ devices.opencl[i].available /\ devices.opencl[i].hardware
             /\ EffectiveIndex("opencl") \in {{}, {i}}})

SelectAutomatic ==
  IF AvailableMetal # {} THEN "metal"
  ELSE IF AvailableVulkan # {} THEN "vulkan"
  ELSE IF AvailableOpenClAccelerator # {} THEN "opencl"
  ELSE "cpu"

\* Mutant: the container does not matter.
ConstrainedByLevel == "level" \in options.flags

ConstrainedToCpu == "level" \in options.flags \/ options.container = "ogg"

Resolve ==
  /\ pc = "resolve"
  /\ backend' = IF options.backend # "auto" THEN options.backend
                ELSE IF ConstrainedToCpu THEN "cpu"
                ELSE SelectAutomatic
  /\ container' = IF options.container # "default" THEN options.container
                  ELSE IF backend' \in NativeFlac THEN "native"
                  ELSE "ogg"
  /\ pc' = "validate"
  /\ UNCHANGED <<options, devices, device>>

\* The checks at the end of parse_compress.
Compatible ==
  /\ "level" \in options.flags => backend = "cpu"
  /\ options.flags \cap {"threads", "stats", "frame-samples", "prediction"} # {} =>
       backend # "cpu"
  /\ "prediction" \in options.flags => backend # "native-verbatim"
  /\ options.request.device # {} => backend \in Accelerated
  /\ \A api \in Accelerated : options.request[api] # {} => backend = api
  /\ backend \in NativeFlac => container = "native"

Validate ==
  /\ pc = "validate"
  /\ pc' = IF Compatible THEN "open" ELSE "rejected"
  /\ UNCHANGED <<options, devices, backend, container, device>>

-----------------------------------------------------------------------------
(* Opening the session, in the backends. *)

SelectMetal ==
  LET all == DOMAIN devices.metal
  IN  IF EffectiveIndex("metal") # {}
      THEN EffectiveIndex("metal") \cap all
      ELSE Prefer({i \in all : ~devices.metal[i].lowPower}, all)

\* Mutant: the first device that is not a CPU.
SelectVulkanInOrder ==
  LET usable == {i \in DOMAIN devices.vulkan : devices.vulkan[i].usable}
  IN  IF EffectiveIndex("vulkan") # {}
      THEN EffectiveIndex("vulkan") \cap usable
      ELSE FirstOf({i \in usable : devices.vulkan[i].type # "cpu"})

SelectVulkanAnalysis ==
  LET usable == {i \in DOMAIN devices.vulkan : devices.vulkan[i].usable}
      typed(types) == {i \in usable : devices.vulkan[i].type \in types}
  IN  IF EffectiveIndex("vulkan") # {}
      THEN EffectiveIndex("vulkan") \cap usable
      ELSE Prefer(typed({"discrete-gpu"}), typed({"discrete-gpu", "integrated-gpu"}))

\* The first available device of any class.
ChooseOpenCl ==
  LET available == {i \in DOMAIN devices.opencl : devices.opencl[i].available}
  IN  IF EffectiveIndex("opencl") # {}
      THEN EffectiveIndex("opencl") \cap available
      ELSE FirstOf(available)

Selected(b) ==
  CASE b = "metal"  -> SelectMetal
    [] b = "vulkan" -> SelectVulkanAnalysis
    [] b = "opencl" -> ChooseOpenCl

\* compress_lds: the CPU backends need no device.
OpenSession ==
  /\ pc = "open"
  /\ IF backend \in Accelerated
     THEN /\ device' = Selected(backend)
          /\ pc' = IF device' = {} THEN "failed" ELSE "running"
     ELSE pc' = "running" /\ UNCHANGED device
  /\ UNCHANGED <<options, devices, backend, container>>

Ended == pc \in {"rejected", "failed", "running"} /\ UNCHANGED vars

Next == Resolve \/ Validate \/ OpenSession \/ Ended

Spec == Init /\ [][Next]_vars
-----------------------------------------------------------------------------
(* Properties. *)

NativeOnly == {"threads", "stats", "frame-samples", "prediction"}
Order == [metal |-> 1, vulkan |-> 2, opencl |-> 3]

\* The devices automatic selection may take (README.md:200), or the requested one
\* where the options name one; asked for, a Vulkan device may be a CPU.
Eligible(api) ==
  {i \in DOMAIN devices[api] :
     /\ EffectiveIndex(api) \in {{}, {i}}
     /\ api = "vulkan" => /\ devices.vulkan[i].usable
                          /\ devices.vulkan[i].type # "cpu" \/ EffectiveIndex(api) # {}
     /\ api = "opencl" => devices.opencl[i].available /\ devices.opencl[i].hardware}

\* A command runs on the device its options name: that of the backend's own option,
\* which is never given up for another backend, and that of --device where no
\* backend's own is given; beside the backend's own option --device is overridden
\* without a word, by effective_*_device_index.  When the backend is automatic it is the
\* first, in the order of README.md:200, to have that device (README.md:236).
RequestedDeviceRuns ==
  pc = "running" /\ (\E name \in DOMAIN options.request : options.request[name] # {}) =>
    /\ backend \in Accelerated
    /\ \A api \in Accelerated :
         options.request[api] # {} => backend = api /\ device = options.request[api]
    /\ (\A api \in Accelerated : options.request[api] = {}) => device = options.request.device
    /\ options.backend = "auto" =>
         /\ device \subseteq Eligible(backend)
         /\ \A api \in Accelerated : Order[api] < Order[backend] => Eligible(api) = {}

\* A command that leaves the backend open is not refused because of what automatic
\* selection made of it.  It fails only if it needs an accelerator, for a device option or
\* one of the native encoders' own, and either asks for the CPU by its level or container
\* or finds no eligible device on this machine; or if it names a device of one
\* interface and another has an eligible one (README.md:237).
AutomaticRefusedForCause ==
  options.backend = "auto" /\ pc \in {"rejected", "failed"} =>
    \/ /\ \/ options.flags \cap NativeOnly # {}
          \/ \E name \in DOMAIN options.request : options.request[name] # {}
       /\ \/ "level" \in options.flags \/ options.container = "ogg"
          \/ \A api \in Accelerated : Eligible(api) = {}
    \/ \E api \in Accelerated : \E other \in Accelerated \ {api} :
         options.request[api] # {} /\ Eligible(other) # {}

\* The two selections agree: automatic selection never resolves to a backend
\* whose session then finds no device, and with Vulkan and Metal the session runs
\* on the very device that the probe found.
AutomaticRunsProbedDevice ==
  options.backend = "auto" =>
    /\ pc # "failed"
    /\ pc = "running" /\ backend = "metal"  => device = AvailableMetal
    /\ pc = "running" /\ backend = "vulkan" => device = AvailableVulkan

\* README.md:200: auto takes a GPU or accelerator-class OpenCL device.  The
\* session of compress does not ask for the class.
AutomaticOpenClIsHardware ==
  pc = "running" /\ options.backend = "auto" /\ backend = "opencl" =>
    \A i \in device : devices.opencl[i].hardware
=============================================================================
