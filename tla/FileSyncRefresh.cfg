SPECIFICATION Spec
CONSTANT MaxContents = 3
PROPERTY RefreshSparesUploads
CHECK_DEADLOCK FALSE
