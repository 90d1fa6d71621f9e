-------------------------- MODULE KernelNamesCache --------------------------
(***************************************************************************)
(* The kernel names cache of IcdL0Module (src/icd/icd_level_zero.cpp):    *)
(* zeModuleGetKernelNames -> getKernelNames / getKernelNamesCount, which   *)
(* call queryKernelNames once wasKernelNamesQueried is seen false.         *)
(* queryKernelNames tests the flag, takes kernelNamesMutex, asks the       *)
(* service for the concatenated names (two RPCs), appends them one by one  *)
(* (populateKernelNames) and stores the flag.  Several application threads *)
(* may call into the same module.                                          *)
(***************************************************************************)
EXTENDS Naturals, Sequences, FiniteSets

CONSTANTS
    Threads,      \* application threads calling zeModuleGetKernelNames
    Names,        \* the kernel names the service reports, in order
    MaxCalls,     \* calls per thread
    NoOwner       \* kernelNamesMutex unlocked

ASSUME NoOwner \notin Threads /\ MaxCalls \in Nat \ {0} /\ Len(Names) > 0

VARIABLES
    queried,      \* wasKernelNamesQueried (std::atomic<bool>)
    kernelNames,  \* IcdL0Module::kernelNames (std::vector<std::string>)
    owner,        \* kernelNamesMutex
    pc,           \* where each thread is
    pos,          \* names appended so far by a thread in populateKernelNames
    calls,        \* calls made by each thread
    returned      \* counts reported to the application by successful calls

vars == <<queried, kernelNames, owner, pc, pos, calls, returned>>

Init == /\ queried = FALSE
        /\ kernelNames = <<>>
        /\ owner = NoOwner
        /\ pc = [t \in Threads |-> "idle"]
        /\ pos = [t \in Threads |-> 0]
        /\ calls = [t \in Threads |-> 0]
        /\ returned = {}
-----------------------------------------------------------------------------
(* zeModuleGetKernelNames with valid handles: both the count query         *)
(* (count of 0) and the names query start by testing the flag.            *)
ZeModuleGetKernelNames(t) ==
    /\ pc[t] = "idle"
    /\ calls[t] < MaxCalls
    /\ calls' = [calls EXCEPT ![t] = @ + 1]
    /\ pc' = [pc EXCEPT ![t] = "check"]
    /\ UNCHANGED <<queried, kernelNames, owner, pos, returned>>

(* getKernelNames / getKernelNamesCount: !wasKernelNamesQueried.load()     *)
(* decides whether queryKernelNames() runs at all.                         *)
CheckQueried(t) ==
    /\ pc[t] = "check"
    /\ pc' = [pc EXCEPT ![t] = IF queried THEN "read" ELSE "qcheck"]
    /\ UNCHANGED <<queried, kernelNames, owner, pos, calls, returned>>

(* queryKernelNames: the flag is tested again before the lock, and not    *)
(* after it.                                                               *)
QueryCheck(t) ==
    /\ pc[t] = "qcheck"
    /\ pc' = [pc EXCEPT ![t] = IF queried THEN "read" ELSE "lock"]
    /\ UNCHANGED <<queried, kernelNames, owner, pos, calls, returned>>

(* std::lock_guard lock{kernelNamesMutex}. *)
Lock(t) ==
    /\ pc[t] = "lock"
    /\ owner = NoOwner
    /\ owner' = t
    /\ pc' = [pc EXCEPT ![t] = "rpc"]
    /\ UNCHANGED <<queried, kernelNames, pos, calls, returned>>

(* Defect variant of QueryRpc: the failure return keeps the mutex. *)
QueryRpcKeepLock(t) ==
    /\ pc[t] = "rpc"
    /\ \/ /\ pc' = [pc EXCEPT ![t] = "populate"]
          /\ pos' = [pos EXCEPT ![t] = 0]
       \/ /\ pc' = [pc EXCEPT ![t] = "idle"]
          /\ UNCHANGED pos
    /\ UNCHANGED <<queried, kernelNames, owner, calls, returned>>

(* The two zeModuleGetKernelNamesRpcHelper calls.  Either may fail: then  *)
(* the guard unlocks and the call returns ZE_RESULT_ERROR_DEVICE_LOST.     *)
QueryRpc(t) ==
    /\ pc[t] = "rpc"
    /\ \/ /\ pc' = [pc EXCEPT ![t] = "populate"]
          /\ pos' = [pos EXCEPT ![t] = 0]
          /\ UNCHANGED owner
       \/ /\ pc' = [pc EXCEPT ![t] = "idle"]
          /\ owner' = NoOwner
          /\ UNCHANGED pos
    /\ UNCHANGED <<queried, kernelNames, calls, returned>>

(* Defect variant of Populate: the flag is stored before the names are    *)
(* all in the vector.                                                      *)
PopulatePublishEarly(t) ==
    /\ pc[t] = "populate"
    /\ \/ /\ pos[t] < Len(Names)
          /\ kernelNames' = Append(kernelNames, Names[pos[t] + 1])
          /\ pos' = [pos EXCEPT ![t] = @ + 1]
          /\ queried' = TRUE
          /\ UNCHANGED pc
       \/ /\ pos[t] = Len(Names)
          /\ pc' = [pc EXCEPT ![t] = "publish"]
          /\ UNCHANGED <<kernelNames, pos, queried>>
    /\ UNCHANGED <<owner, calls, returned>>

(* populateKernelNames: one emplace_back per '\0'-terminated name. *)
Populate(t) ==
    /\ pc[t] = "populate"
    /\ \/ /\ pos[t] < Len(Names)
          /\ kernelNames' = Append(kernelNames, Names[pos[t] + 1])
          /\ pos' = [pos EXCEPT ![t] = @ + 1]
          /\ UNCHANGED pc
       \/ /\ pos[t] = Len(Names)
          /\ pc' = [pc EXCEPT ![t] = "publish"]
          /\ UNCHANGED <<kernelNames, pos>>
    /\ UNCHANGED <<queried, owner, calls, returned>>

(* wasKernelNamesQueried.store(true); return true, the guard unlocks. *)
Publish(t) ==
    /\ pc[t] = "publish"
    /\ queried' = TRUE
    /\ owner' = NoOwner
    /\ pc' = [pc EXCEPT ![t] = "read"]
    /\ UNCHANGED <<kernelNames, pos, calls, returned>>

(* The rest of getKernelNames / getKernelNamesCount: kernelNames.size()   *)
(* is read without the mutex and reported.                                 *)
ReadNames(t) ==
    /\ pc[t] = "read"
    /\ returned' = returned \cup {Len(kernelNames)}
    /\ pc' = [pc EXCEPT ![t] = "idle"]
    /\ UNCHANGED <<queried, kernelNames, owner, pos, calls>>

(* Every thread has made its calls. *)
Done ==
    /\ \A t \in Threads : pc[t] = "idle" /\ calls[t] = MaxCalls
    /\ UNCHANGED vars

Step(t) ==
    \/ CheckQueried(t) \/ QueryCheck(t) \/ Lock(t) \/ QueryRpc(t)
    \/ Populate(t) \/ Publish(t) \/ ReadNames(t)

Next == (\E t \in Threads : ZeModuleGetKernelNames(t) \/ Step(t)) \/ Done

(* Threads are scheduled by the OS: each one that can run eventually does. *)
Spec == Init /\ [][Next]_vars /\ \A t \in Threads : WF_vars(Step(t))
-----------------------------------------------------------------------------
(* A successful zeModuleGetKernelNames never reports fewer names than the *)
(* module has: the flag that lets other threads skip queryKernelNames is   *)
(* stored only after populateKernelNames appended every name.              *)
NamesCompleteOnReturn == \A n \in returned : n >= Len(Names)

(* Every zeModuleGetKernelNames call returns, whichever thread holds      *)
(* kernelNamesMutex and whether or not the service RPCs fail.              *)
CallsReturn == \A t \in Threads : pc[t] # "idle" ~> pc[t] = "idle"

(* The cache holds each kernel name once: queryKernelNames populates      *)
(* kernelNames at most once per module.                                    *)
NamesNotDuplicated == Len(kernelNames) <= Len(Names)
=============================================================================
