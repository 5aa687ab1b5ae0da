# A TLA+ model of the TPM key vault

This directory holds a formal model of the key vault in `src/`: a C++ library
that protects the passphrases of private keys with an RSA key that never leaves
a TPM 2.0, the shell scripts that provision that key, and the process hardening
the library comes with.  The modules are translated from the source; TLC checks
them on small instances, and TLAPS proves the theorems of the `_proofs` modules
for every instance.

- [The system](#the-system)
- [The modules and the code](#the-modules-and-the-code)
- [The runs](#the-runs)
- [Fairness](#fairness)
- [What disagrees with its documentation](#what-disagrees-with-its-documentation)
- [What is proved](#what-is-proved)
- [What is not modelled](#what-is-not-modelled)
- [Plan](#plan)

## The system

| component | state it keeps | operations | talks to |
|---|---|---|---|
| `TssSession` (`source/tss_session.*`) | ESYS context, endorsement-key handle, session handle, PCR index, `valid` | constructor, destructor, `decrypt`, `is_valid` | the TPM, by ESYS calls |
| `KeyVault` (`source/key_vault.*`) | paths of the provisioned files, one `TssSession` | `protect`, `load_protected_key`, `sign_with_protected_key`, `decrypt_with_protected_key` | `TssSession`, OpenSSL, files under `keys/` |
| `SecureBuffer` (`source/key_vault.*`) | a byte buffer and whether its pages are locked | construct, move, `wipe`, destroy | `mlock`, `munlock` |
| `ProtectedPassphrase` | id and ciphertext | `serialize`, `deserialize` | none |
| provisioning (`scripts/init.sh`, `tpm_lib.sh`, `clear.sh`, `pcr.sh`) | persistent keys and PCRs in the TPM; `tpm_rsa_pub.pem`, `ek.ctx`, `ek.pub`, `pcr_policy`, `pcr_value` under `keys/` | provision, remove, restore the PCR at boot, extend, reset | `tpm2-tools`; `KeyVault`, through the files |
| process hardening (`source/process_hardening.*`) | dumpable flag, core limit, ptracer, memory lock, tracer, all in the kernel | `harden_process`, `check_hardening_status`, `assert_no_debugger` | `prctl`, `setrlimit`, `mlockall`, `ptrace`, `/proc` |
| example programs (`source/tpm_example.cpp`, `key_vault_example.cpp`) | OpenSSL objects, a vault | sign, verify, encrypt, decrypt | OpenSSL with the tpm2 provider; `KeyVault` |
| status scripts | none | print | the TPM |

How the parts meet: `init.sh` makes a key at a persistent handle and writes what
the vault needs under `keys/`.  A `KeyVault` reads `pcr_policy` once, when it is
constructed, and opens a `TssSession` of the kind it asks for (an HMAC session, or
a policy session for one PCR).  `protect` needs only the public key file; every
other call decrypts a passphrase in the TPM over the session, opens a PEM file
with it, and uses the key.  Sessions of several vaults share one TPM.  Passphrases
live in `SecureBuffer`s, whose page locks belong to the whole process and are
shared with `mlockall` of the hardening.

What is hard to get right, and hard to test:

- a policy session carries state in the TPM from call to call (`policyDigest`, the
  PCR update counter) that the object does not see: what a failed call leaves in
  it decides the fate of the next one;
- ESYS calls of several vaults, and PCR changes of other programs, interleave
  between any two steps of a decrypt;
- the constructor takes three resources in a row and can fail at each of five
  calls; a destructor runs on what was built;
- provisioning writes to the TPM and to five files without a transaction, and can
  be stopped between any two of these; nothing keeps two scripts apart;
- a vault reads the policy file and the key at its handle once, and the public key
  file at every `protect`, while scripts change all three;
- `init.sh` flushes, on every exit, all saved sessions it can see;
- PCR extends accumulate, and only a reboot undoes them;
- every C call of a key operation has its own clean-up code, and C++ allocations
  in between can throw past it;
- page locks do not nest;
- buffers are moved onto each other in any state, and each byte of a secret must
  have one owner who still knows its length;
- the lengths of a stored passphrase are 32-bit numbers, and so are their sums;
- a debugger can attach between any two steps of `harden_process`.

What makes each component correct:

- `TssSession`: it leaks nothing into the TPM; sessions do not disturb each other;
  ciphertext and plaintext cross the bus encrypted; a plaintext comes out only of
  a call that itself showed the TPM a matching PCR; every call comes back.
- `KeyVault`: on every exit, whatever was acquired is released and whatever was
  copied is wiped; a failure never looks like a result.
- `SecureBuffer`: a secret has one owner at a time, is locked in RAM as long as it
  exists, and is erased before its block is given back.
- `ProtectedPassphrase`: what was serialised comes back, and nothing else is taken
  for it.
- provisioning: after a run that says it is complete, key and files fit together;
  no unforced run destroys what works; the policy can be met again after a boot.
- vault and provisioning: what is protected can be recovered; a vault that works
  goes on working.
- hardening: a protection that was reported is in force; a debugger is noticed;
  what failed is reported.
- example programs: every exit frees what was made, before what it was made from.

The hazards these properties are aimed at are listed, at their lines, in
`PROJECT.json`.

## The modules and the code

### `TssSession`, `PolicyGate`

`TssSession.tla` models `tss_session.cpp`.  The members of `Impl` are functions of
the object (`ctx`, `ek_handle`, `session`, `pcr_index`, `valid`; booleans stand for
"not null" and "not ESYS_TR_NONE"), `pc` is the next ESYS call of the thread that
runs it.  Each ESYS call is one action, named after it, and each has its failure:
`ConstructorThrows` for the five calls of `init`, `PolicyPcrThrows`,
`SizeCheck`'s first disjunct and `RsaDecryptThrows` for those of `do_decrypt`.  A
throw from `init` continues with `FlushSession`, `FlushEk`, `Finalize`, as the
destructor of the half-built `unique_ptr` member does.

The TPM is modelled from the way the code uses it: `tpmSession` and `tpmEk` say
which sessions and endorsement keys are alive, `digest` abstracts a session's
`policyDigest` to *start value*, *exactly this one assertion*, or *longer chain*,
and `snapshot` is the PCR update counter a PolicyPCR noted, as far as it matters:
none, current, stale.  A successful authorised command starts the policy of a kept
session afresh; a failed one leaves it.  PCRs that are not in `Counted` (the debug
PCR 16) change without the counter.  `ResourceManagerRestart` takes all sessions
away behind the objects' backs; `Crash` is the death of a process.

`PolicyGate.tla` is the abstract specification: a vault is closed, open, asked,
vouched, or has granted, and from *asked* it gets to *granted* only through
*vouched*, within one call.  `vaultState` in `TssSession` maps the detailed state
to it.

### `Provisioning`

`Provisioning.tla` models `init.sh` with `tpm_lib.sh`, `clear.sh` and `pcr.sh`.  `nv`
and `pcr` are the TPM; a PCR's contents are the sequence of identities it was
extended with since it was zero, which is exactly what a hash chain tells apart.
`pem`, `ek`, `policyFile`, `valueFile` are the files.  Every command that changes the
TPM or a file is a step of its own, and `echo > file` is two: the file is `Empty`
between them.  `Abort` (a failing command under `set -e`, an interrupt) and `Reboot`
can come between any two.  Each script process has its `pc`, its command line and,
for `init.sh`, what its temporary files hold (`digest`, `blob`).  A key remembers its
policy, whether `is_keyvault_key` would take it for one of ours (`profile`), and, for
the properties only, who made it and with what arguments.

Several scripts may run at once.  `Overlap` is history: it notes for each run whether
another one has begun during it.  The properties that fail for two administrators
name the overlap as their exception, so they also say that nothing else is one.

### `VaultLifecycle`

`VaultLifecycle.tla` composes `Provisioning` with vaults over the same TPM and the same
files.  `ReadPolicy` and `OpenSession` are the two steps of `KeyVault::KeyVault` that
read what a script may be changing: `read_pcr_policy`, from which an empty file yields
-1, and the `TssSession`, which takes the key that is at the handle at that moment.
`Protect` reads the public key file and asks nobody; `Recover` is the decryption of a
stored passphrase, with which load, sign and decrypt all begin, and `RecoverFails` one
that throws after PolicyPCR whatever the vault is worth: the ciphertext is too long or
damaged, or the TPM fails.  `TssSession` says what such a throw does to a policy
session, here it is `spoiled`.  `ScriptStep` is any
step of a script with what it means for the vaults: the exit of an `init.sh` runs the
trap `tpm2_flushcontext -s`, which takes the sessions of some of the vaults.  A vault
does not notice the loss of its session, and does not lose its `pcr_index` and key.

Two variables are history, and one field.  `completed` is the handle of a run of `init.sh`
that came to its end, alone, with no `init.sh` or `clear.sh` begun since.  A vault is
`settled` if its constructor read `pcr_policy` when that was so, or when a run for its
handle was alone and had the file behind it (`Prepared`), and none has begun since.  Such
a constructor may open its session between any two of the remaining steps; the key of
that run is the only one it can find if the run completes, since an old one is removed
before the file is written.  `unfinished` says that the last script to change anything
was cut short (`CutShort`): stopped after it had touched the key or the files and before its
end, or run beside another script, which can leave the same traces.

### `SecureBuffer`, `Custody`

`SecureBuffer.tla` models the class as a class: constructor, both moves, `wipe` and
destructor of several objects at once, over a heap (`length` of each block, offsets
that hold bytes of a secret) and the page locks.  Since `wipe` is called by the
destructor, by the assignment and by the owner, `then` says where it returns to; the
object an assignment takes over from is `lent` until it has been taken.

`Custody.tla` is the abstract specification: a secret is received by one holder,
handed over, and erased.  Memory, sizes and locks are not in it.  `custodianOf` maps
a block to the object that points to it, if there are bytes of a secret in it.

### `PassphraseBlob`

`PassphraseBlob.tla` models `serialize` and `deserialize` with their checks in the code's
order and 32-bit sums (`Wrap`), and between them a database that returns the blob,
a part of it, more than it, or anything else (`Strangers`).  `Encode` and `Decode` are
the `memcpy` of a length; only that one undoes the other is assumed of them.  A copy
of more bytes than the blob has ends `outside` or in an exception.

### `KeyOperation`

`KeyOperation.tla` models the four calls of `KeyVault` with all their exits: one step
per call into libc, OpenSSL or ESYS that can fail.  `owned` is what the C code has
to release by hand, `where` says on which page each copy of the passphrase lies,
`locked` which pages are locked, `output` what the vector to be returned holds, by
its kind.  `Leave` is stack unwinding: destructors run, what only a raw pointer
refers to stays and is noted in `left`.  `BadAlloc` is an allocation that throws.

### `Hardening`

`Hardening.tla` models `harden_process` layer by layer, with the kernel state each
layer changes, every refusal the code distinguishes, and a debugger that attaches
and detaches at will.  Each read of `check_hardening_status` (the limit, `status`, `maps`)
can fail on its own.  `generous` and `lockFailed` are history: they delimit when the
status query takes a high limit for locked memory.  It has no constants and its state space is finite as it is.

### `ExamplePrograms`

`ExamplePrograms.tla` holds both example programs as a table, `Program`: for each
call, the object it makes, what is freed after it when it succeeds and when it
fails, and where the program goes on.  `Succeed`, `Fail` and `Free` interpret it.  The
loop of `load_tpm_key` and the places where `main` looks at a result are actions of
their own.

### Conventions

Definitions introduced by a comment that begins with *Slip* are deliberate
deviations (a dropped guard, a missing reset, a swapped order).  No `Next` uses
them; put in place of the definition they follow, each makes the property fail
that `PROJECT.json` pairs it with, which shows that the property can fail.

## The runs

| run | instance | asks |
|---|---|---|
| `session` | 2 objects, PCR 14 with 2 values, room for 2 sessions, fairness | type, `NothingOrphaned`, `BusEncrypted`, `SessionSurvivesCalls`, `RefusedOnlyIfTainted`, `TaintedForGood`, `CallsReturn`, and that `TssSession` implements `PolicyGate` |
| `session_allowed` | 1 object | finds `MatchingPcrIsAllowed` violated |
| `provisioning` | 2 scripts at a time, 1 handle, PCR 14, 1 identity, 2 keys, 2 extends, `tpm2_readpublic` failing at will | type, `CompletedRunConsistent`, `PolicyReproducible`, `KeyKept`, `BootRestores`, `WorkingSetKept` |
| `provisioning_opens` | 1 script, 1 handle, PCR 16 | finds `CompletedRunOpens` violated |
| `provisioning_ready` | 1 script, 1 handle, PCR 14 | finds `ReadyMeansMatching` violated |
| `lifecycle` | 1 script, 1 vault, 2 handles sharing `keys/`, PCR 16, 2 keys | type, `CompletedRunServes`, `ProtectedForLiveKey`, `WorkingVaultKept`, and `BootRestores` for a PCR that is reset |
| `key_operation` | 2 threads, 2 pages, `mlock` may fail, with and without `mlockall` | type, `CallsCleanUp`, `PassphraseGoneBeforeUse`, `NeverZeroes`, `LockLostOnlyToNeighbour` |
| `secure_buffer` | 3 objects, 3 blocks on 2 pages, up to 2 bytes | type, `OwnedOnce`, `SecretHasOwner`, `LockedUnlessDisturbed`, and that `SecureBuffer` implements `Custody` |
| `codec` | fields of two 2-bit digits, so that sums wrap at 16; parts of 0, 1, 6 or 17 bytes; all foreign contents up to 6 | type, `RoundTrip`, `AcceptedIsABlob` |
| `hardening` | complete | type, `ReportedProtectionHolds`, `DebuggerNotMissed`, `FalseAlarmOnlyAfterTraceme`, `FailuresNoted` |
| `hardening_assert` | complete | finds `AssertThrowsForDebugger` violated |
| `examples` | both programs, up to 2 objects in the key store | type, `EverythingFreed`, `LoopEndsUnlessStoreStuck` |

Why the bounds are enough:

- Two objects show every interference there is between sessions, since an object
  reaches another's state only through the shared PCRs, the session slots and the
  resource manager, and none of them counts objects.  For the safety properties
  this is more than plausible: they are proved for every set of objects.
- Two PCR values are "the key's" and "another one".  The slots for sessions run out
  because a crash leaves its session in the TPM until the resource manager drops it.
- Two keys allow: a key, and a foreign or forced one in its place or at the other
  handle.  Two extends allow: the right value, and one too many; longer chains are
  as wrong as two.  `lifecycle` has one: its PCR is reset before it is extended.
- Two scripts show what a script can do to another: a third would act through the
  same TPM and files, and every property already lets a run that was overlapped
  find anything.  `provisioning` needs its state space for them and has one handle
  and the PCR that only a reboot resets; that an unforced run breaks nothing
  (`WorkingSetKept`) is asked there, where `tpm2_readpublic` fails and scripts overlap.
  `lifecycle` has one script, and the two
  handles and the debug PCR that `provisioning` has not.  The steps of `pcr.sh boot`
  that reset a PCR are reached in `lifecycle` only.
- One vault is enough beside the scripts: vaults act on each other only through the
  TPM's sessions, which is the subject of `session`.  That neither the one vault nor
  the one script of `lifecycle` hides anything is proved (`VaultLifecycle_proofs`).
- Three buffers on three blocks: a move has two parties, and the third is the
  neighbour.  Block `b2` lies across the boundary of two pages, `b1` and `b3` share
  one with it but none with each other.
- In `codec` a part of 17 bytes does not fit the field, one of 6 fits alone but not
  with another, 0 and 1 are the ends; 6 bytes of foreign contents hold every pair of
  lengths with up to two bytes of data.  All sums that wrap at 16 occur.
- Two objects in the key store are one that is no key and one that is.
- One key held by the caller (`MaxHeld`) is enough for `ReturnKey` and its release.
- Two pages let buffers share a page or not.

`SYMMETRY` is used in `provisioning` (scripts), `lifecycle` (handles) and
`secure_buffer` (objects), where all properties are safety properties and treat them
alike.  Deadlock is checked everywhere but in `codec` and `examples`, whose systems
are programs that come to their end.

The sizes: `session` 280,610 distinct states, `provisioning` 2.4 million, `lifecycle`
1.4 million, `secure_buffer` 0.7 million, `codec` 0.6 million; the others are small.

## Fairness

`FairSpec` asks weak fairness of `Step(c)`, an object's own steps inside a method
that has been called: the thread keeps running.  A method is never called by
fairness, and no event of the surroundings (PCR changes, restarts, crashes) is
ever forced.  Each ESYS call is synchronous and comes back with success or an
error; while the call's success is disabled (say, no session slot is free) its
failure is enabled, which is what the TPM does.  No strong fairness is needed,
because no step of an object waits for another one.

`ExamplePrograms` asks `WF_vars(Next)`: a single-threaded program that can go on does.
That is not enough for the loop over the key store, which continues on a NULL
without leaving; `LoopEndsUnlessStoreStuck` says that a store which gives NULL for
ever, without reaching its end, is the only reason for it not to end.

## What disagrees with its documentation

Four runs end in a violation.  Each checks one sentence of the repository against
what the code does; `findings` in `PROJECT.json` quotes both.

1. **A failed decrypt spoils its policy session** (`session_allowed`).  An exception
   after PolicyPCR (ciphertext too long, ciphertext rejected, PCR mismatch, TPM
   unreachable) leaves the assertion in the session.  The next call chains a
   second one onto it, and is refused for policy although the PCR matches.  The
   same module proves how far it goes: for good (`TaintedForGood`), and only after
   such a call (`RefusedOnlyIfTainted`).
2. **`init.sh` without `--pcr` keeps the policy file of an earlier run**
   (`provisioning_opens`), so the vault opens a policy session for a key that has no
   policy.
3. **`pcr.sh boot` is not idempotent** (`provisioning_ready`): run in the session that
   provisioned, or twice after a reboot, it moves PCR 14 or 15 away from the
   policy, and prints that the PCR is ready.
4. **After `harden_process`, `assert_no_debugger` always throws** (`hardening_assert`):
   PTRACE_TRACEME makes the parent the tracer, which the check takes for a debugger.

Other disagreements are part of the models and are the exceptions in the
properties that hold, without a run of their own:

- A failing size query makes `sign_with_protected_key` return a signature of zeroes,
  where `key_vault.h` says the result is empty on failure (`NeverZeroes` is about
  protect and decrypt only).
- Wiping one `SecureBuffer` unlocks the page of another (the exceptions of
  `LockLostOnlyToNeighbour` and `LockedUnlessDisturbed`; `key_vault.h` says that the
  memory is locked).
- Lengths whose 32-bit sum with the header wraps lead `serialize` and `deserialize`
  past the end of a vector (`Fits` in `RoundTrip`, `Wrapped` in `AcceptedIsABlob`).
- The early exits of `tpm_example`'s `main` free neither the key nor the providers
  (the last conjunct of `EverythingFreed`).
- Between the truncation and the writing of `pcr_policy`, and for good if `init.sh` is
  stopped there, a vault takes the key for one without a policy.  `CompletedRunServes`
  says that this ends with the next run that completes.
- One stored passphrase that is damaged ends a working vault whose session has a policy
  (`RecoverFails` in `WorkingVaultKept`): disagreement 1 as the application meets it.
- A key of another application that looks like a vault key is removed by `clear.sh`
  without `--force` (`MayRemove` of `KeyKept`); `KeyKept` says that `init.sh` never does.
- Every `init.sh`, even one that finds all provisioned, may end the session of a
  running vault (`WorkingVaultKept`), which does not notice.
- Two `init.sh` at once can leave a key whose files are the other run's (the
  `Overlapped` of `CompletedRunConsistent`).
- `is_valid()` stays true after the resource manager has dropped the session
  (`~lost[c]` in `SessionSurvivesCalls`; `tss_session.h` says "active").
- An allocation that throws while a key is loaded leaves the private key in memory
  (`Explained` in `KeyOperation`; `key_vault.h` says "automatic cleanup").
- With `--force` on a PCR that is not zero, the policy depends on extends that
  nothing records, so no boot can meet it (the exception of `PolicyReproducible`).
- A failing `tpm2_readpublic` counts as a free handle, and an unforced run then
  overwrites the policy files of the key that is there (the `notes` of
  `WorkingSetKept`).
- A run stopped between persisting and exporting leaves a key that every later run
  calls provisioned, without its public key file.
- `munlock` of a wiped buffer also takes its page out of `mlockall`'s lock.
- `check_hardening_status` infers locked memory from a resource limit: it is wrong for a
  process that was given a high one, and for one whose limit `harden_process` has raised
  in vain (the last conjunct of `ReportedProtectionHolds`).  A ptrace restriction refused with EINVAL is not reported (the `yama` of `FailuresNoted`).

## What is proved

`TssSession_proofs` proves, under `ConstantsAssumption` only (PCR numbers are below
24, the key's policy is about one PCR or absent, the marks are distinct), for any
set of objects, PCRs, PCR values and any number of session slots:

| theorem | states |
|---|---|
| `TypeCorrect` | `Spec => []TypeOK` |
| `NothingIsOrphaned` | `Spec => []NothingOrphaned` |
| `BusIsEncrypted` | `Spec => []BusEncrypted` |
| `SessionOutlivesCalls` | `Spec => []SessionSurvivesCalls` |
| `OnlyTaintedRefused` | `Spec => RefusedOnlyIfTainted` |
| `TaintIsPermanent` | `Spec => TaintedForGood` |
| `ImplementsGate` | `Spec => GateSpec` |

The argument.  `BusEncrypted` is inductive, given the types.  The others are not;
the proofs strengthen them step by step, each layer assuming those below:

- `TypeInv` is `TypeOK` and `PolicyIndexed`: an object at PolicyPCR was opened for a
  PCR.  Without it `pcr[pcr_index[c]]` need not be a PCR value, and not even the
  type of `digest` is preserved.
- `HandlesFollowCalls` ties `ctx`, `ek_handle` and `session` to the call that is next,
  and what the TPM holds to them; `NothingOrphaned` follows.  It is needed because
  the destructor may give up the connection only after both flushes.
- `SessionKept` says that from SetAttributes to the destructor the session is in the
  TPM and has `continuesession`; `SessionSurvivesCalls` follows.
- `DigestLife` says what the digest holds at each point of a call.  Without an
  earlier throw it is the start value until PolicyPCR, and then, if no PCR has
  changed since the call began, the assertion of the PCR's value with a current
  counter.  After a throw it is never the start value, and past the next PolicyPCR
  it is spoiled.  `RefusedOnlyIfTainted` and `TaintedForGood` follow, each by the
  cases of `EndsCases`.
- `SnapshotCurrent` says that an assertion about a counted PCR whose noted counter is
  current is about the PCR's present value; `NoOutcomeYet` says that an object under
  construction has no decrypt behind it.  The refinement needs both: the first for
  granting, the second so that a new object is *open* and not *granted*.

`ImplementsGate` shows that the initial states are mapped to initial states of
`PolicyGate`, and every step to a step of one or more vaults or to a stutter.

`KeyOperation_proofs` proves, under `KeyOperationAssumption` only (the mark `NoPage` is
not a page, the bound is a number), for any threads and pages:

| theorem | states |
|---|---|
| `TypeCorrect` | `Spec => []TypeOK` |
| `CallsAlwaysCleanUp` | `Spec => []CallsCleanUp` |
| `PassphraseIsGone` | `Spec => []PassphraseGoneBeforeUse` |
| `ZeroesNeverReturned` | `Spec => []NeverZeroes` |
| `LocksLostToNeighbours` | `Spec => LockLostOnlyToNeighbour` |

The argument.  What has to be released on an exit depends on how far the call has
got, so the properties, which speak of ended calls only, say nothing from which a
step could be argued.  `IInv` says, for every place in the code, which resources the
call owns (`OwnedAt`), which copies of the passphrase exist (`CopiesAt`), and what
the vector to be returned may hold (`Filled`).  Two lemmas carry all actions: `Ending`
(a call that ends preserves `IInv` if what it leaves is explained) and `Advancing` (a
step inside a call does if the next place finds what `OwnedAt` and `CopiesAt` say).
Both also show that the step leaves the other threads alone, so the invariant is
one of each thread.  The page locks are what threads do share; `LocksTaken` says
how a step takes one away.

`SecureBuffer_proofs` proves, under `SecureBufferAssumption` only (`Null` is neither a
block nor an object, every block has its pages), for any objects, heap blocks and
pages:

| theorem | states |
|---|---|
| `TypeCorrect` | `Spec => []TypeOK` |
| `BlocksOwnedOnce` | `Spec => []OwnedOnce` |
| `SecretsHaveOwners` | `Spec => []SecretHasOwner` |
| `SecretsLocked` | `Spec => []LockedUnlessDisturbed` |
| `ImplementsCustody` | `Spec => CustodySpec` |

The argument has four layers.  `Places` says where an object can be while it has a
block or has none, and that an assignment has lent its source to itself only
(`Lends`); without it a take-over could come from an object that is being wiped.
`OwnedOnce` is inductive given `Places`, since `Steal` empties the source in the step
that fills the target.  `SecretsHeld` ties each secret to an owner at a place from
which it still zeroes all of it: `size_` moves along with `data_`.  `Covered` says that
pages are locked from `mlock` to `munlock`, and an induction over the steps of the
other objects leaves only `disturbed`.  `ImplementsCustody` maps `Fill` to receiving,
`Steal` to handing over and `Zero` to erasing; every other step is a stutter, which
`OwnedOnce` is needed for: `custodianOf` chooses the owner, so there has to be one.

`PassphraseBlob_proofs` proves, under `BlobAssumption` only (a word is larger than the
header, `Encode` and `Decode` undo each other), for any field width and word size:

| theorem | states |
|---|---|
| `TypeCorrect` | `Spec => []TypeOK` |
| `OnlyBlobsAccepted` | `Spec => []AcceptedIsABlob` |
| `ComesBack` | `Spec => []RoundTrip` |

TLC scales the word to 16; the theorems cover the 4 bytes and the 2^32 of the code,
and passphrases of any length.  `Parsed` says which stretch of the blob each place of
`deserialize` has already identified with a field or a part of the result; at the
end these cover the whole blob, which makes it the serialisation of the result
(`Assembled`).  `Kept` says what the database has left of the original blob, and that
`deserialize` reads the original's lengths from any prefix that holds them
(`KnownId`, `KnownData`); it is only claimed for passphrases that fit, since for
others the sums of `serialize` itself wrap.

`Provisioning_proofs` proves, under `ProvisioningAssumption` only (a PCR is not both
locked and debug, the bounds are numbers, the marks are distinct), for any number
of scripts running at once, any handles, PCRs, identities and bounds:

| theorem | states |
|---|---|
| `TypeCorrect` | `Spec => []TypeOK` |
| `CompletedRunsConsistent` | `Spec => []CompletedRunConsistent` |
| `PoliciesReproducible` | `Spec => []PolicyReproducible` |
| `KeysAreKept` | `Spec => KeyKept` |
| `BootsRestore` | `Spec => BootRestores` |
| `WorkingSetsKept` | `Spec => WorkingSetKept` |

The properties speak of the last step of a run, so the invariant says what a run
knows on the way there.  `Own` is what no other script can change: its command
line, its digest, its key.  `Knows` is what it knows of the TPM and the files, which
it shares; it is claimed only for a run that has been alone (`Solo`), and
`Exclusive` (of two that run, each has been overlapped) makes a step of one script
harmless to what another one knows.  Left are a foreign application, which may take
a free handle at any time, and reboots, which end all runs.  `KeysGood` carries
`PolicyReproducible` from the run that made a key to the rest of the key's life.
`Inner`, `Continuing`, `Ending` and `Begin` show once what a step inside a run, one that
ends it and one that begins it do to the others; then each command needs to show
only what its own script knows after it.

`VaultLifecycle_proofs` proves, under `ProvisioningAssumption` and `LifecycleAssumption`
(the mark `None` is not a vault's record), for any number of vaults and scripts at
once, any handles, PCRs, identities and bounds:

| theorem | states |
|---|---|
| `ImplementsProvisioning` | `LifecycleSpec => Spec` |
| `LifecycleTypeCorrect` | `LifecycleSpec => []LifecycleTypeOK` |
| `CompletedRunsServe` | `LifecycleSpec => []CompletedRunServes` |
| `ProtectedForLiveKeys` | `LifecycleSpec => ProtectedForLiveKey` |
| `WorkingVaultsKept` | `LifecycleSpec => WorkingVaultKept` |
| `ScriptsUndisturbed` | the theorems of `Provisioning_proofs`, under `LifecycleSpec` |

The argument starts from `ImplementsProvisioning`: every step of the composition is a
step of a script, of a foreign application or of the machine, or leaves all of these
alone, so `IInv` of `Provisioning_proofs` holds beside any vaults.  To it are added
`IdsUsed` (a key that is somewhere was created, which types the key a session is
opened with) and `Cleared` (a `clear.sh` past the public key file, and alone, has left
none).  `History` then ties the vaults to the scripts:

- `Quiet` and `Serving`: since a completed run no provisioning script has begun, and the
  key and the files are as that run left them.  At the end of the run this is `Knows`
  of the run itself, and `Exclusive`: it was alone, so nobody else is on the way.
- `Settled`: what a settled vault has read is what the key of the run, made or still to
  be made, wants, and the key it opened is that one.  While the run goes on this comes
  from `Own` and `Knows` of the run (`SettledMoves`, `TailMoves`), afterwards from
  `Serving`.  An `init.sh` or `clear.sh` that begins takes `settled` from all vaults
  (`Unsettle`), so nothing has to be shown about it.
- `PemAccounted`: the public key file is of a key that is there, or the last script was
  cut short, or one that may still put it right is `Pending`.  `PemKept` shows that only
  a step that makes its script pending can take the key away, `PendingMoves` that a
  pending script stays so, writes or removes the file, or is cut short, and `EndsLive`
  that one which ends as it should leaves no file without a key.

`WorkingVaultKept` needs little of this, and is by cases of the step: `OnlyRemovals` (an
occupied handle changes only by a removal) and `WorksOn` (a vault whose record, key and
PCR stay works on).

The attempt to prove `ProtectedForLiveKey` for several scripts showed that `unfinished`
had been too narrow for them: it covered a run that was stopped, and a later run's end
cleared it, while a second script, stopped beside it, had removed the key.  Since then
`CutShort` also covers a run that was overlapped; and the property, which had been
stated for working vaults, is now stated for all.

`Hardening_proofs` proves, with no assumption:

| theorem | states |
|---|---|
| `TypeCorrect` | `Spec => []TypeOK` |
| `ReportsHold` | `Spec => []ReportedProtectionHolds` |
| `DebuggersNoticed` | `Spec => []DebuggerNotMissed` |
| `AlarmsExplained` | `Spec => []FalseAlarmOnlyAfterTraceme` |
| `FailuresAreNoted` | `Spec => []FailuresNoted` |

TLC covers all states of `Hardening`; the proof says why.  `Noted` is `FailuresNoted` layer
by layer: past each layer that was asked for, its protection is in place or its failure
in the message; what makes this inductive is the order in which `Layer` picks the next
one.  `TracerKnown` says that a tracer is there because it attached or because of
PTRACE_TRACEME, and `Guarded` that `anti_debug_active` is set by the last step only, and
that the parent stays the tracer until it exits; `DebuggerNotMissed` rests on this and
on `Noted`, not on the first look at TracerPid.  `LimitExplained` accounts for a high
memory limit: given, earned by a lock, left by a failed one, or raised a moment ago.
The attempt also showed that `Layer` had
been a CASE whose guards overlap, which means any of its arms; it is a chain of IFs
now, as in the code.

`ExamplePrograms_proofs` proves, for a key store of any length:

| theorem | states |
|---|---|
| `TypeCorrect` | `Spec => []TypeOK` |
| `AllIsFreed` | `Spec => []EverythingFreed` |

It is a proof outline in the classical sense: `Must` and `May` give, for each label, the
objects that exist there at least and at most once everything in `freeing` is freed.
`Good` is what a row of `Program` has to fulfil for it, whether the call succeeds or
fails, and is shown row by row; `InOrder` carries the order of dependence through the
lists.  `Popped` (one object freed), `CallKeeps` (one row), `LoopKeeps` and `LookKeeps` then
make the outline an invariant.

Only model-checked are the liveness properties `CallsReturn` and
`LoopEndsUnlessStoreStuck`: proofs of them would need ENABLED, and reasoning under
fairness, which the prover does not support.

## What is not modelled

- Cryptography, key material, lengths and bytes; what OpenSSL and the TPM compute.
- Moving a `TssSession` or a `KeyVault`: `KeyVault` constructs its session in place and
  never moves it.
- `pcr.sh read`, `verify_key_operations`, `tpm2_status.sh`,
  `list.sh`, `print_hardening_status`: they change nothing.  `init.sh --check` changes
  nothing either, but its EXIT trap flushes sessions as on every exit: it is a run that
  `Abort` ends at once.
- The generated HTML documentation.
- What OpenSSL does with the NULL keys the example programs may hand to it, and
  allocations that throw in them; the steps inside the vault's calls there are
  those of `KeyOperation`.
- The steps inside a vault's call while scripts run: `VaultLifecycle` takes each call
  as one step.  What happens between the steps of a decrypt is the subject of
  `TssSession`, whose PCRs change, and whose sessions are lost, at any time.
- A change of PCR 16 between PolicyPCR and RSA_Decrypt is modelled as the TPM
  treats it: not noticed.  A plaintext then rests on a value the PCR no longer
  has; `PolicyGate` promises only that the call itself showed a matching value.

## Plan

Every part of the system that changes state is modelled.  The modules came in the
order of what depends on them: `TssSession` with `PolicyGate`, `KeyOperation`,
`Provisioning` and `Hardening`; then `VaultLifecycle`, `SecureBuffer` with `Custody`,
`PassphraseBlob` and `ExamplePrograms`.

Every safety property and every refinement that a run checks is a theorem.  Left:

1. What the theorems rest on could be said more abstractly: a specification of a
   provisioned vault (a key, what is protected for it, when it can be recovered),
   which `VaultLifecycle` would implement as `TssSession` implements `PolicyGate`.
2. The liveness properties, should the prover learn ENABLED.
