-------------------------------- MODULE MCAal --------------------------------
(* The three programs.                                                     *)
EXTENDS AalApp, TLC

MCServices == "MMIOStressTest" :> 1 @@ "InitRelease" :> 1 @@ "HelloALIVTPNLB" :> 2
MCBuffers == "MMIOStressTest" :> 0 @@ "InitRelease" :> 0 @@ "HelloALIVTPNLB" :> 3
MCTests == "MMIOStressTest" :> "printed" @@ "InitRelease" :> "none" @@ "HelloALIVTPNLB" :> "told"
=============================================================================
