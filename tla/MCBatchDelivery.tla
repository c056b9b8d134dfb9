-------------------------- MODULE MCBatchDelivery ---------------------------
(***************************************************************************)
(* Instances of BatchDelivery: one export, one path of its own and one     *)
(* that is another spelling of the export's.                               *)
(***************************************************************************)
EXTENDS BatchDelivery, TLC

MCFiles  == {"panorama.xml", "panorama.xml.tmp", "out.xml", "out.xml.tmp"}
MCPaths  == {"out.xml", "./panorama.xml"}
MCFileOf == "out.xml" :> "out.xml" @@ "./panorama.xml" :> "panorama.xml"
MCTmpOf  == "out.xml" :> "out.xml.tmp" @@ "panorama.xml" :> "panorama.xml.tmp"

=============================================================================
