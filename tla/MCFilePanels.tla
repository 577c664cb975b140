---------------------------- MODULE MCFilePanels ----------------------------
(***************************************************************************)
(* FilePanels on a small instance, as far as its first fault: a connection *)
(* that is lost or a task that ends in an exception.                       *)
(***************************************************************************)
EXTENDS FilePanels

\* Behind a second fault, of the other kind, the run looks no further.
OneFault == losses + throws <= 1
=============================================================================
