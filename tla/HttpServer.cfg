CONSTANT MaxLines = 5
CONSTANT Lines <- MCLines
SPECIFICATION HttpSpec
INVARIANTS ResponsesDelimited
PROPERTY ServesNextRequest
