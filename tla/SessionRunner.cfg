SPECIFICATION LiveSpec
INVARIANTS Agreement StandstillExplained
PROPERTIES PauseBarrier StopCompletes PowerServed GuestProgress
