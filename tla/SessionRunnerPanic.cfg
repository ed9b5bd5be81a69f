SPECIFICATION Spec
PROPERTY CaptureCoherent
