SPECIFICATION Spec
CONSTANTS
  Contents = {c1, c2}
  None = None
  MaxQueue = 2
  MaxActs = 4
CHECK_DEADLOCK FALSE
INVARIANTS PreviewAnswersTheDraft SaveArmedByCurrentPreview RuntimeShowsTheEngine
PROPERTIES EachDraftSavedOnce PreviewsSettle ClockGoesOn
