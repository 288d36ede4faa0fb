SPECIFICATION Spec
CHECK_DEADLOCK FALSE
INVARIANTS RegistrarTracked CallStateAgrees CSeqFresh RefreshKept
PROPERTIES StaysDeregistered VoiceReturns
