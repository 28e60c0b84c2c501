------------------------------- MODULE Session -------------------------------
(***************************************************************************)
(* A run of the program, from main() (src/src/main.c) to its exit: the     *)
(* options, the backend that is loaded (src/src/backend.c) and created     *)
(* (src/src/backends/filesrc.c, linuxdvb.c), the tuner, the mount with     *)
(* everything in StreamDelivery, and the way back, which every failure     *)
(* has to join at the right place.                                         *)
(*                                                                         *)
(* The library that holds the backend's code, the backend's parser and its *)
(* descriptors, and descriptor 0 are what the way back has to give up or   *)
(* to leave alone.                                                         *)
(***************************************************************************)
EXTENDS StreamDelivery

VARIABLES
  stage,    \* where main() is
  options,  \* the command line; constant
  ret,      \* main()'s ret, "zero" or "error"
  handle,   \* backend_handle: the library is loaded
  parser,   \* priv->parser: "none", "live", "freed"
  open,     \* descriptors of the backend that are open
  stdin     \* descriptor 0 is open

boot == <<options, ret, handle, parser, open, stdin>>
all == <<vars, stage, boot>>

(* What the code asks of the command line.  `backend' is what dlopen(),    *)
(* dlsym() and backend_get_ops() make of its name; `arguments' what        *)
(* fuse_opt_parse() and the backend's validation do of the rest.           *)
CommandLines ==
  [standard : {"known", "unknown"}, report : {"valid", "invalid"},
   backend : {"none", "unusable", "usable"}, arguments : {"valid", "invalid"},
   frequency : BOOLEAN]

-----------------------------------------------------------------------------
(* main(), up to backend_load().                                           *)

(* `goto out_free' with the value that ret has there.                      *)
OutFree(r) == stage' = "free" /\ ret' = r

(* fuse_opt_parse() and the checks of the options, in their order.  The    *)
(* check of -o report leaves ret at 0.                                     *)
ParseOptions ==
  /\ stage = "options"
  /\ \/ OutFree("error")
     \/ options.standard = "unknown" /\ OutFree("error")
     \/ options.standard = "known" /\ options.backend = "none" /\ OutFree("error")
     \/ /\ options.standard = "known" /\ options.backend # "none"
        /\ options.report = "invalid"
        /\ OutFree("zero")
     \/ /\ options.standard = "known" /\ options.backend # "none"
        /\ options.report = "valid"
        /\ stage' = "load"
        /\ UNCHANGED ret
  /\ UNCHANGED <<vars, options, handle, parser, open, stdin>>

(* backend_load() gives the library back itself if it cannot be used.      *)
LoadBackend ==
  /\ stage = "load"
  /\ \/ /\ options.backend = "unusable"
        /\ OutFree("error")
        /\ UNCHANGED handle
     \/ /\ options.backend = "usable"
        /\ handle' = TRUE
        /\ stage' = "create"
        /\ UNCHANGED ret
  /\ UNCHANGED <<vars, options, parser, open, stdin>>

-----------------------------------------------------------------------------
(* create() of the two backends.                                           *)

Created(fds) ==
  /\ parser' = "live" /\ open' = fds
  /\ stage' = "tune"
  /\ UNCHANGED <<ret, stdin>>

(* create() freed what it had; main() has but to unload the library.       *)
CreateFails ==
  /\ stage' = "unload" /\ ret' = "error"
  /\ UNCHANGED <<parser, open>>

CreateFilesrc ==
  /\ stage = "create" /\ source = "filesrc"
  /\ \/ CreateFails /\ UNCHANGED stdin
     \/ options.arguments = "valid" /\ Created({"file"})
  /\ UNCHANGED <<vars, options, handle>>

(* The devices are opened in this order.                                   *)
Devices == IF options.frequency THEN <<"frontend", "dvr", "demux">>
                                ELSE <<"dvr", "demux">>

(* linuxdvb's out_free closes all three descriptors of a structure that    *)
(* calloc() filled with zeroes: one that is not opened yet is descriptor 0.*)
CreateLinuxdvb ==
  /\ stage = "create" /\ source = "linuxdvb"
  /\ \/ /\ options.arguments = "valid"
        /\ Created({Devices[i] : i \in DOMAIN Devices})
     \/ /\ CreateFails                       \* fuse_opt_parse(), the filter
        /\ UNCHANGED stdin
     \/ /\ options.arguments = "invalid"     \* qpsk_voltage, qpsk_tone
        /\ CreateFails
        /\ stdin' = FALSE
     \/ /\ options.arguments = "valid"
        /\ \E i \in DOMAIN Devices :         \* open() fails
             stdin' = (stdin /\ Devices[i] = "demux")
        /\ CreateFails
  /\ UNCHANGED <<vars, options, handle>>

-----------------------------------------------------------------------------
(* linuxdvb_set_frequency(), for either version of the API.                *)

TuneFails ==
  /\ stage' = "destroy" /\ ret' = "error"

(* Nothing to tune; or the ioctl()s that set the frequency, of which any   *)
(* may fail, as does a frontend of an unknown type.                        *)
SetFrequency ==
  /\ stage = "tune"
  /\ \/ /\ "frontend" \notin open
        /\ stage' = "mount"
        /\ UNCHANGED ret
     \/ /\ "frontend" \in open
        /\ \/ TuneFails
           \/ stage' = "locking" /\ UNCHANGED ret
  /\ UNCHANGED <<vars, options, handle, parser, open, stdin>>

(* Version 3 polls for an event with FE_HAS_LOCK or FE_TIMEDOUT, version 5 *)
(* reads the status every second until it has FE_HAS_LOCK.  Neither ends   *)
(* if the frontend comes up with nothing else.                             *)
Lock ==
  /\ stage = "locking"
  /\ \/ stage' = "mount" /\ UNCHANGED ret
     \/ TuneFails
  /\ UNCHANGED <<vars, options, handle, parser, open, stdin>>

-----------------------------------------------------------------------------
(* fuse_main(), and the way back.                                          *)

FuseMain ==
  /\ stage = "mount"
  /\ \/ /\ Mount
        /\ stage' = "serve"
        /\ UNCHANGED ret
     \/ /\ stage' = "destroy" /\ ret' = "error"
        /\ UNCHANGED vars
  /\ UNCHANGED <<options, handle, parser, open, stdin>>

FuseReturns ==
  /\ stage = "serve" /\ mount = "gone"
  /\ stage' = "destroy"
  /\ \E r \in {"zero", "error"} : ret' = r
  /\ UNCHANGED <<vars, options, handle, parser, open, stdin>>

(* linuxdvb never closes the frontend.                                     *)
Destroy ==
  /\ stage = "destroy"
  /\ parser' = "freed"
  /\ open' = open \ {"file", "dvr", "demux"}
  /\ stage' = "unload"
  /\ UNCHANGED <<vars, options, ret, handle, stdin>>

BackendUnload ==
  /\ stage = "unload"
  /\ handle' = FALSE
  /\ stage' = "free"
  /\ UNCHANGED <<vars, options, ret, parser, open, stdin>>

Exit ==
  /\ stage = "free"
  /\ stage' = "exit"
  /\ UNCHANGED <<vars, boot>>

-----------------------------------------------------------------------------
SessionInit ==
  /\ Init
  /\ stage = "options"
  /\ options \in CommandLines
  /\ ret = "zero"
  /\ handle = FALSE /\ parser = "none"
  /\ open = {} /\ stdin = TRUE

Main ==
  \/ ParseOptions \/ LoadBackend \/ CreateFilesrc \/ CreateLinuxdvb
  \/ SetFrequency \/ FuseMain \/ FuseReturns \/ Destroy \/ BackendUnload \/ Exit

Mounted == Delivery \/ Unmount \/ Join

SessionNext ==
  \/ Main
  \/ Lock
  \/ Mounted /\ UNCHANGED <<stage, boot>>

(* The frontend need not lock.                                             *)
SessionSpec ==
  /\ SessionInit /\ [][SessionNext]_all
  /\ Fairness /\ WF_all(Main)

-----------------------------------------------------------------------------
(* Type invariant.                                                         *)
SessionTypeOK ==
  /\ stage \in {"options", "load", "create", "tune", "locking", "mount", "serve",
                "destroy", "unload", "free", "exit"}
  /\ options \in CommandLines
  /\ ret \in {"zero", "error"}
  /\ handle \in BOOLEAN /\ stdin \in BOOLEAN
  /\ parser \in {"none", "live", "freed"}
  /\ open \subseteq {"file", "frontend", "dvr", "demux"}

(* The backend is code of the library and works on the parser: its thread  *)
(* only runs while both are there, with its descriptors open.              *)
ThreadHasBackend ==
  pc \notin {"unborn", "done"} =>
    /\ handle /\ parser = "live" /\ open # {}
    /\ mount \in {"mounted", "stopping"}

(* destroy() is called of a parser that is there, once.                    *)
DestroysLive == stage = "destroy" => parser = "live" /\ handle

(* What was loaded, created and opened is given back, except for the       *)
(* frontend; descriptor 0, which is closed by mistake, is not used again.  *)
NothingLeft ==
  /\ stage = "exit" =>
       ~handle /\ parser # "live" /\ open \subseteq {"frontend"}
  /\ ~stdin => stage \in {"unload", "free", "exit"} /\ pc = "unborn"

(* A run that never mounted says so by its exit status, except if -o       *)
(* report was invalid (main.c:217 leaves ret at 0).                        *)
StatusTells ==
  stage = "exit" /\ ret = "zero" => pc = "done" \/ options.report = "invalid"

(* main.c from `Load the chosen backend' to the exit: on every path, with  *)
(* the parser thread and the unmount in between, what a step uses is there *)
(* and what it made is given back.                                         *)
LifeCycle == ThreadHasBackend /\ DestroysLive /\ NothingLeft /\ StatusTells

(* main() comes to its end, an unmount included, whatever fails and        *)
(* whatever the readers do, unless a frontend never locks, nobody          *)
(* unmounts, a device is silent (linuxdvb reads it without O_NONBLOCK and  *)
(* pthread_join() waits), or a reader keeps the FIFO open and full.        *)
Exits ==
  \/ <>(stage = "exit")
  \/ <>[](stage = "locking") \/ <>[](mount = "mounted")
  \/ Silent \/ []<>Stalled
=============================================================================
