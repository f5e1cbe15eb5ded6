------------------------------- MODULE Device -------------------------------
(***************************************************************************)
(* The life of the module around its buffers (driver/main.c): dmaplane_init *)
(* with its unwinding, the optional dma-buf self-test, which runs after    *)
(* /dev/dmaplane exists and so among its users, and dmaplane_exit.         *)
(*                                                                         *)
(* The kernel lets rmmod go ahead only when nothing refers to the module:  *)
(* no open file (a mapping keeps its file open) and no dma-buf (its owner  *)
(* is the module until the release callback has run).                      *)
(*                                                                         *)
(* The channels, the RDMA context and the pinned GPU buffers that exit     *)
(* takes down are in ChannelTable, Rdma and GpuP2P.                        *)
(***************************************************************************)
EXTENDS Buffers, Sequences

VARIABLES
    phase,    \* of the module: see Phases
    held,     \* what dmaplane_init has allocated and registered
    opened,   \* some process has the device open
    self_id   \* the handle of the self-test's buffer, or 0

lifevars == <<phase, held, opened, self_id>>
devicevars == <<vars, lifevars>>

Phases == {"absent", "loading", "selftest", "undo", "live", "freeing", "leaving"}

(* In the order of dmaplane_init; "pdev" is allocated, "bus" is added to the *)
(* bus, "mask" only checks the DMA mask.                                    *)
Objects == <<"dev", "pdev", "bus", "mask", "region", "cdev", "class", "node">>
Chardev == {"region", "cdev", "class", "node"}

DeviceTypeOK ==
    /\ phase \in Phases
    /\ held \subseteq {Objects[k] : k \in DOMAIN Objects}
    /\ opened \in BOOLEAN
    /\ self_id \in 0..IdMod-1

DeviceInit ==
    /\ Init
    /\ phase = "absent" /\ held = {}
    /\ opened = FALSE /\ self_id = 0

-----------------------------------------------------------------------------
\* dmaplane_init

(* kzalloc of the device context; its table is that of Init. *)
Load ==
    /\ phase = "absent"
    /\ phase' = "loading" /\ held' = {"dev"}
    /\ UNCHANGED <<vars, opened, self_id>>

Loading(k) ==
    /\ phase = "loading"
    /\ held = {Objects[j] : j \in 1..k-1}

Acquire(k) ==
    /\ Loading(k)
    /\ held' = held \cup {Objects[k]}
    /\ UNCHANGED <<vars, phase, opened, self_id>>

(* Where the goto of each failing step enters the labels, and what they    *)
(* undo from there: platform_device_unregister takes the device off the    *)
(* bus and puts it, platform_device_put is for one that was never added.   *)
Undone(failed) ==
    CASE failed = "pdev"   -> {"dev"}
      [] failed = "bus"    -> {"dev", "pdev"}
      [] failed = "mask"   -> {"dev", "pdev", "bus"}
      [] failed = "region" -> {"dev", "pdev", "bus", "mask"}
      [] failed = "cdev"   -> {"dev", "pdev", "bus", "mask", "region"}
      [] failed = "class"  -> {"dev", "pdev", "bus", "mask", "region", "cdev"}
      [] failed = "node"   -> {"dev", "pdev", "bus", "mask", "region", "cdev", "class"}

LoadFails(k) ==
    /\ Loading(k)
    /\ held' = held \ Undone(Objects[k])
    /\ phase' = "absent"
    /\ UNCHANGED <<vars, opened, self_id>>

(* /dev/dmaplane exists; test_dmabuf asks for the self-test. *)
Loaded(test_dmabuf) ==
    /\ phase = "loading" /\ "node" \in held
    /\ phase' = IF test_dmabuf THEN "selftest" ELSE "live"
    /\ UNCHANGED <<vars, held, opened, self_id>>

-----------------------------------------------------------------------------
\* dmaplane_dmabuf_selftest

(* dmabuf_rdma_destroy_buffer answers -EBUSY. *)
Busy(s) == mmap_count[s] > 0 \/ dmabuf_exported[s]

SelfTestCreate ==
    /\ phase = "selftest" /\ self_id = 0
    /\ \/ /\ CreateBuffer("pages")
          /\ self_id' = next_buf_id
          /\ UNCHANGED phase
       \/ /\ CreateFails("pages") \/ ((\A s \in Slots : in_use[s]) /\ UNCHANGED vars)
          /\ phase' = "live"
          /\ UNCHANGED self_id
    /\ UNCHANGED <<held, opened>>

(* The export succeeds, and the test goes on as an importer: its fd stays  *)
(* with insmod, and its buffer stays when it ends.                         *)
SelfTestExport ==
    /\ phase = "selftest" /\ self_id # 0
    /\ \E d \in Dmabufs : Export(self_id, d)
    /\ phase' = "live" /\ self_id' = 0
    /\ UNCHANGED <<held, opened>>

SelfTestExportFails ==
    /\ phase = "selftest" /\ self_id # 0
    /\ UNCHANGED vars \/ \E d \in Dmabufs : ExportFdFails(self_id, d)
    /\ phase' = "undo"
    /\ UNCHANGED <<held, opened, self_id>>

(* Its buffer is destroyed, if a user has not destroyed, mapped or exported *)
(* it in between.                                                           *)
SelfTestUndo ==
    /\ phase = "undo"
    /\ \/ DestroyBuffer(self_id)
       \/ /\ \A s \in Find(self_id) : Busy(s)
          /\ UNCHANGED vars
    /\ phase' = "live" /\ self_id' = 0
    /\ UNCHANGED <<held, opened>>

-----------------------------------------------------------------------------
\* Users

Open ==
    /\ "node" \in held /\ ~opened
    /\ opened' = TRUE
    /\ UNCHANGED <<vars, phase, held, self_id>>

(* The last file is closed; mappings hold the file open. *)
Close ==
    /\ opened /\ \A v \in Vmas : vma[v] = None
    /\ opened' = FALSE
    /\ UNCHANGED <<vars, phase, held, self_id>>

-----------------------------------------------------------------------------
\* rmmod and dmaplane_exit

Referenced == opened \/ \E d \in Dmabufs : dstate[d] # "none"

(* Mutant: the platform device goes with the character device. *)
ExitUnregistersFirst ==
    /\ phase = "live" /\ ~Referenced
    /\ held' = held \ (Chardev \cup {"bus", "pdev", "mask"})
    /\ phase' = "freeing"
    /\ UNCHANGED <<vars, opened, self_id>>

(* The character device goes first: no opens and no ioctls from here. *)
ExitChardev ==
    /\ phase = "live" /\ ~Referenced
    /\ held' = held \ Chardev
    /\ phase' = "freeing"
    /\ UNCHANGED <<vars, opened, self_id>>

(* Every buffer left is destroyed; a mapped or exported one would be       *)
(* refused, with a warning, and its memory lost.                           *)
ExitBuffers ==
    /\ phase = "freeing"
    /\ in_use' = [s \in Slots |-> in_use[s] /\ Busy(s)]
    /\ phase' = "leaving"
    /\ UNCHANGED <<id, alloc_type, mmap_count, dmabuf_exported, dmabuf, next_buf_id, vma, dvars>>
    /\ UNCHANGED <<held, opened, self_id>>

(* The platform device goes, then the device context with its table; what  *)
(* is still in use has been lost.                                          *)
ExitEnd ==
    /\ phase = "leaving"
    /\ held' = {} /\ phase' = "absent"
    /\ UNCHANGED <<in_use, vma, dvars, opened, self_id>>
    /\ id' = [s \in Slots |-> 0]
    /\ alloc_type' = [s \in Slots |-> "coherent"]
    /\ mmap_count' = [s \in Slots |-> 0]
    /\ dmabuf_exported' = [s \in Slots |-> FALSE]
    /\ dmabuf' = [s \in Slots |-> None]
    /\ next_buf_id' = 1

-----------------------------------------------------------------------------

DeviceNext ==
    \/ Load
    \/ \E k \in DOMAIN Objects : Acquire(k) \/ LoadFails(k)
    \/ \E t \in BOOLEAN : Loaded(t)
    \/ SelfTestCreate \/ SelfTestExport \/ SelfTestExportFails \/ SelfTestUndo
    \/ Open \/ Close
    \/ opened /\ DeviceCall /\ UNCHANGED lifevars
    \/ Callback /\ UNCHANGED lifevars
    \/ ExitChardev \/ ExitBuffers \/ ExitEnd

(* A task that dropped the last reference returns to user mode. *)
DeviceSpec ==
    /\ DeviceInit /\ [][DeviceNext]_devicevars
    /\ \A d \in Dmabufs : WF_devicevars(DmabufRelease(d) /\ UNCHANGED lifevars)

-----------------------------------------------------------------------------
\* Properties

(* Nothing outlives what it stands on.  Whoever has the device open, maps  *)
(* it, imports a dma-buf or has a release callback to come finds the       *)
(* device context; a buffer finds the platform device its memory is freed  *)
(* through; and when the module is gone, after an unload or a load that    *)
(* failed at any step, nothing is still allocated or registered: exit has  *)
(* freed every buffer, the self-test's too.                                *)
NothingOutlivesItsBase ==
    /\ DeviceTypeOK
    /\ (Referenced \/ \E v \in Vmas : vma[v] # None) => "dev" \in held
    /\ \A s \in Slots : in_use[s] => {"dev", "bus"} \subseteq held
    /\ phase = "absent" => held = {}
=============================================================================
